---- MODULE Spec2Model ----
(***************************************************************************)
(* gmail-exporter: the export / import worker pools, the sequential        *)
(* cleanup loop and the operation wrappers around them.                    *)
(*                                                                         *)
(* One behaviour is one run of one operation (export, import or cleanup)   *)
(* on one configuration.  Goroutines are processes: the main goroutine     *)
(* (pc), the pool workers (pool), and the goroutine that waits for the     *)
(* WaitGroup and closes the result channel (closer).  The workers are      *)
(* anonymous goroutines running the same function, so the pool is the bag  *)
(* of their local states.  Channels are sequences with a closed flag.      *)
(* Time stamps are not modelled.  An export that resumes an interrupted    *)
(* run finds no manifest, which only a completed run writes.  The walk of  *)
(* the import's input directory is a specification of its own, ScanSpec.   *)
(***************************************************************************)
EXTENDS Integers, Sequences, FiniteSets, Bags, TLC

\* ---- bounds of the model ------------------------------------------------
MaxItems == 2
MaxWorkers == 2
MaxLimit == 1

\* entries under the input directory of an import scan
MaxEntries == 3

\* identifiers per page of the remote listing
PageSize == 1

\* an identifier exported by an earlier run into the same output directory
StaleID == MaxItems + 1

\* a nil error
Nil == ""

Ops == {"export", "import", "cleanup"}
ItemIDs == 1..MaxItems

Max(a, b) == IF a >= b THEN a ELSE b
Min(a, b) == IF a <= b THEN a ELSE b

RECURSIVE SumSizes(_)
SumSizes(s) == IF s = <<>> THEN 0 ELSE Head(s).Size + SumSizes(Tail(s))

Range(s) == {s[i] : i \in 1..Len(s)}

\* the byte length of the message / file with identifier id
SizeOf(id) == 100 * id

\* the extension of the id-th file of the input directory (rot rotates the
\* assignment so that every position sees every format)
Exts == <<"eml", "json", "mbox">>
ExtOf(id, rot) == Exts[((id + rot) % 3) + 1]

VARIABLES
    op,             \* which operation this run is
    config,         \* Config of the operation
    concurrency,    \* ghost: the ParallelWorkers the caller asked for
    rot,            \* import: rotation of the file extensions in InputDir
    mailbox,        \* the identifiers the environment holds, in order
    pc,             \* position of the main goroutine
    pageToken,      \* searchEmails: next page to ask for (0 = first)
    messageIDs,     \* the item list (messageIDs / emailFiles / processedEmails)
    preLimit,       \* ghost: length of the item list before truncation
    jobs, jobsClosed,
    results, resultsClosed,
    wgCount,        \* sync.WaitGroup counter
    spawned,        \* loop variable of the "Start workers" loop
    sent,           \* loop variable of the "Send jobs" loop
    pool,           \* the bag of the local states of the worker goroutines
    closer,         \* the goroutine func(){ wg.Wait(); close(results) }
    result,         \* *Result being aggregated
    processed,      \* progress counter of the collect loop
    progress,       \* the percentage of the last progress line printed
    processedEmails,
    manifest,       \* content of processed_emails.json 
    manifestWrites, \* ghost: number of times the manifest was written
    metricsSaved,   \* the metrics file of the operation has been written
    calls,          \* ghost: remote API calls issued per item
    listCalls,      \* ghost: number of Users.Messages.List calls
    written,        \* export: identifiers whose message file was written
    outputDir,      \* export: os.MkdirAll(OutputDir) has been called
    taken, invoked, collected,  \* ghost counters per item
    outcome,        \* ghost: what the handler returned per item
    panicked,       \* a send on a closed channel happened
    tree,           \* scan: the paths under InputDir, in the order WalkDir visits
    walked,         \* scan: number of entries the walk function was called for
    emailFiles,     \* scan: the emailFiles slice of findEmailFiles
    walkState,      \* scan: "idle", "walking", "done" or "error"
    flags,          \* filter: the filter flags of the command line
    filterConfig,   \* filter: the filters.Config built from the flags
    parts,          \* filter: the parts slice of BuildGmailQuery
    query,          \* filter: the string BuildGmailQuery returned
    filterState,    \* filter: "idle", "flags", "config", "built", "valid", "invalid", "error"
    rawMessage,     \* round trip: the bytes of the message at the remote
    rawPadded,      \* round trip: the remote pads the base64url text it returns
    fileData,       \* round trip: the content of the file export wrote
    importedRaw,    \* round trip: the Raw of the message given to Users.Messages.Import
    tripState,      \* round trip: "idle", "start", "exported", "imported", "failed"
    retval          \* what the entry point returned: "none", "result", "error"

vars == <<op, config, concurrency, rot, mailbox, pc, pageToken, messageIDs, preLimit,
          jobs, jobsClosed, results, resultsClosed, wgCount, spawned, sent,
          pool, closer, result, processed, progress, processedEmails,
          manifest, manifestWrites, metricsSaved, calls, listCalls, written, outputDir,
          taken, invoked, collected, outcome, panicked, retval,
          tree, walked, emailFiles, walkState,
          flags, filterConfig, parts, query, filterState,
          rawMessage, rawPadded, fileData, importedRaw, tripState>>

scanVars == <<tree, walked, emailFiles, walkState>>
filterVars == <<flags, filterConfig, parts, query, filterState>>
tripVars == <<rawMessage, rawPadded, fileData, importedRaw, tripState>>
envVars == <<op, concurrency, rot, mailbox, scanVars, filterVars, tripVars>>
chanVars == <<jobs, jobsClosed, results, resultsClosed, wgCount>>
workerVars == <<pool>>
ghostVars == <<taken, invoked, collected, outcome>>
sideVars == <<calls, listCalls, written, outputDir, manifest, manifestWrites, metricsSaved>>
aggVars == <<result, processed, progress, processedEmails>>

\* ---- configurations -----------------------------------------------------
ExportFormats == {"", "eml", "json", "mbox", "pdf"}
CleanupActions == {"", "archive", "delete", "archivex"}

ExportConfigs ==
    [ParallelWorkers : -1..MaxWorkers, Limit : 0..MaxLimit, Format : ExportFormats,
     Action : {""}, DryRun : {FALSE}, Resume : BOOLEAN]
ImportConfigs ==
    [ParallelWorkers : -1..MaxWorkers, Limit : -1..MaxLimit, Format : {""},
     Action : {""}, DryRun : {FALSE}, Resume : {FALSE}]
CleanupConfigs ==
    [ParallelWorkers : {0}, Limit : -1..MaxLimit, Format : {""},
     Action : CleanupActions, DryRun : BOOLEAN, Resume : {FALSE}]

NoFile == [exists |-> FALSE, entries |-> <<>>]
FileOf(entries) == [exists |-> TRUE, entries |-> entries]

\* the identifiers 1..n in order
Iota(n) == [i \in 1..n |-> i]

\* a manifest as export writes it for the identifiers of s
ManifestOf(s) == [i \in 1..Len(s) |-> [ID |-> s[i], Size |-> SizeOf(s[i])]]

\* the loop variables of a worker that holds no job / no result
NoJob == 0
NoResult == [MessageID |-> 0, Size |-> 0, Error |-> Nil]

\* the local state of a worker: where it is in its loop, the job it took
\* (messageID) and the result it is about to send
Idle == [at |-> "recv", job |-> NoJob, res |-> NoResult]
Handling(id) == [at |-> "handle", job |-> id, res |-> NoResult]
Sending(r) == [at |-> "send", job |-> r.MessageID, res |-> r]
Exited == [at |-> "exit", job |-> NoJob, res |-> NoResult]
Crashed == [at |-> "panic", job |-> NoJob, res |-> NoResult]

\* one worker of the pool b goes from local state from to local state to
Move(b, from, to) == (b (-) SetToBag({from})) (+) SetToBag({to})

\* no progress line printed yet
NoProgress == [printed |-> FALSE, defined |-> TRUE, tenths |-> 0]

\* the "%.1f" of float64(processed)/float64(total)*100, in tenths of a percent;
\* a zero total gives NaN or Inf, not a number of tenths
Percent(done, total) ==
    [printed |-> TRUE,
     defined |-> total # 0,
     tenths |-> IF total = 0 THEN 0 ELSE (2000 * done + total) \div (2 * total)]

EmptyResult ==
    [TotalMatched |-> 0, TotalExported |-> 0, TotalFailed |-> 0, TotalSize |-> 0,
     Failures |-> <<>>]

\* ---- filters: the zero values -------------------------------------------
\* a nil *time.Time / a date flag that was not given
NoDate == [set |-> FALSE]

\* the filter flags of a command line that gives none
NoFlags ==
    [to |-> "", from |-> "", subject |-> "", includesWords |-> "", excludesWords |-> <<>>,
     sizeGreaterThan |-> <<>>, sizeLessThan |-> <<>>, dateWithin |-> <<>>,
     dateAfter |-> NoDate, dateBefore |-> NoDate,
     hasAttachment |-> FALSE, noAttachment |-> FALSE, excludeChats |-> FALSE,
     labels |-> <<>>, searchScope |-> ""]

\* &filters.Config{}: sizes are naturals in base 1024, least significant
\* digit first (no digit = 0); DateWithin is a number of hours
ZeroConfig ==
    [To |-> "", From |-> "", Subject |-> "", IncludesWords |-> "", ExcludesWords |-> <<>>,
     SizeGreaterThan |-> <<>>, SizeLessThan |-> <<>>, DateWithin |-> 0,
     DateAfter |-> NoDate, DateBefore |-> NoDate, HasAttachment |-> "nil",
     ExcludeChats |-> FALSE, Labels |-> <<>>, SearchScope |-> ""]

\* no command line is being translated
FilterIdle ==
    /\ flags = NoFlags
    /\ filterConfig = ZeroConfig
    /\ parts = <<>>
    /\ query = ""
    /\ filterState = "idle"

\* no message is being exported and imported again
TripIdle ==
    /\ rawMessage = <<>>
    /\ rawPadded = FALSE
    /\ fileData = <<>>
    /\ importedRaw = <<>>
    /\ tripState = "idle"

\* no directory is being walked
ScanIdle ==
    tree = <<>> /\ walked = 0 /\ emailFiles = <<>> /\ walkState = "idle"

\* the state of a run that has not started
Fresh ==
    /\ pc = "new"
    /\ pageToken = 0
    /\ messageIDs = <<>>
    /\ preLimit = 0
    /\ jobs = <<>> /\ jobsClosed = FALSE
    /\ results = <<>> /\ resultsClosed = FALSE
    /\ wgCount = 0 /\ spawned = 0 /\ sent = 0
    /\ pool = EmptyBag
    /\ closer = "none"
    /\ result = EmptyResult
    /\ processed = 0
    /\ progress = NoProgress
    /\ processedEmails = <<>>
    /\ manifestWrites = 0
    /\ metricsSaved = FALSE
    /\ calls = [i \in ItemIDs |-> <<>>]
    /\ listCalls = 0
    /\ written = {}
    /\ outputDir = FALSE
    /\ taken = [i \in ItemIDs |-> 0]
    /\ invoked = [i \in ItemIDs |-> 0]
    /\ collected = [i \in ItemIDs |-> 0]
    /\ outcome = [i \in ItemIDs |-> "none"]
    /\ panicked = FALSE
    /\ retval = "none"

Init ==
    /\ op \in Ops
    /\ config \in (CASE op = "export" -> ExportConfigs
                     [] op = "import" -> ImportConfigs
                     [] OTHER -> CleanupConfigs)
    /\ concurrency = config.ParallelWorkers
    /\ rot \in (IF op = "import" THEN 0..2 ELSE {0})
    /\ mailbox \in {Iota(n) : n \in 0..MaxItems}
    /\ manifest \in (CASE op = "export" /\ config.Resume -> {NoFile}
                       [] op = "export" -> {NoFile, FileOf(ManifestOf(<<StaleID>>))}
                       [] op = "cleanup" -> {FileOf(ManifestOf(mailbox))}
                       [] OTHER -> {NoFile})
    /\ Fresh
    /\ ScanIdle
    /\ FilterIdle
    /\ TripIdle

\* ---- constructors: validateConfig ---------------------------------------
engineVars == <<pageToken, messageIDs, preLimit, chanVars, spawned, sent, workerVars,
                closer, aggVars, sideVars, ghostVars, panicked>>

Reject == pc' = "rejected" /\ retval' = "error"

\* exporter.validateConfig, reached through exporter.New
ExporterValidateConfig(c) ==
    IF c.ParallelWorkers < 0 THEN [ok |-> FALSE, config |-> c]
    ELSE LET d == IF c.Format = "" THEN [c EXCEPT !.Format = "eml"] ELSE c
         IN  [ok |-> d.Format \in {"eml", "json", "mbox"}, config |-> d]

\* importer.validateConfig (the input directory exists)
ImporterValidateConfig(c) ==
    [ok |-> ~(c.ParallelWorkers < 0) /\ ~(c.Limit < 0), config |-> c]

\* cleaner.validateConfig (the filter file is named and exists)
CleanerValidateConfig(c) ==
    LET d == IF c.Action = "" THEN [c EXCEPT !.Action = "archive"] ELSE c
    IN  [ok |-> d.Action \in {"archive", "delete"} /\ ~(d.Limit < 0), config |-> d]

New ==
    /\ pc = "new"
    /\ LET v == CASE op = "export" -> ExporterValidateConfig(config)
                  [] op = "import" -> ImporterValidateConfig(config)
                  [] OTHER -> CleanerValidateConfig(config)
       IN  /\ config' = v.config
           /\ IF v.ok
              THEN pc' = "entry" /\ retval' = "none"
              ELSE Reject
    /\ UNCHANGED <<envVars, engineVars>>

\* ---- Exporter.Export ----------------------------------------------------
\* filterConfig.Validate(): the filter is an input; it is valid or it is not
\* ExportValidateFilter that validates after the output directory is made
ExportValidateFilterLate ==
    /\ pc = "entry" /\ op = "export"
    /\ outputDir' = TRUE
    /\ \E valid \in BOOLEAN :
          IF valid THEN pc' = "search" /\ retval' = "none" ELSE Reject
    /\ UNCHANGED <<envVars, config, pageToken, messageIDs, preLimit, chanVars,
                   spawned, sent, workerVars, closer, aggVars, calls, listCalls,
                   written, manifest, manifestWrites, metricsSaved, ghostVars, panicked>>

ExportValidateFilter ==
    /\ pc = "entry" /\ op = "export"
    /\ \E valid \in BOOLEAN :
          IF valid THEN pc' = "mkdir" /\ retval' = "none" ELSE Reject
    /\ UNCHANGED <<envVars, config, engineVars>>

\* "Create output directory": os.MkdirAll, which may fail
MakeOutputDir ==
    /\ pc = "mkdir" /\ op = "export"
    /\ \E ok \in BOOLEAN :
          IF ok
          THEN outputDir' = TRUE /\ pc' = "search" /\ retval' = "none"
          ELSE outputDir' = outputDir /\ pc' = "failed" /\ retval' = "error"
    /\ UNCHANGED <<envVars, config, pageToken, messageIDs, preLimit, chanVars,
                   spawned, sent, workerVars, closer, aggVars, calls, listCalls,
                   written, manifest, manifestWrites, metricsSaved, ghostVars, panicked>>

\* the identifiers of page p (0-based) of the listing
PageOf(p) == SubSeq(mailbox, p * PageSize + 1, Min(Len(mailbox), (p + 1) * PageSize))
\* HasNextPage of a search that ignores the continuation token
HasNextPageIgnored(p) == FALSE

\* resp.NextPageToken is set while identifiers remain after page p
HasNextPage(p) == (p + 1) * PageSize < Len(mailbox)

\* one iteration of the loop of searchEmails: one Users.Messages.List call
SearchEmailsPage ==
    /\ pc = "search" /\ op = "export"
    /\ listCalls' = listCalls + 1
    /\ \E ok \in BOOLEAN :
          IF ~ok
          THEN /\ pc' = "failed" /\ retval' = "error"
               /\ UNCHANGED <<messageIDs, pageToken>>
          ELSE /\ messageIDs' = messageIDs \o PageOf(pageToken)
               /\ retval' = "none"
               /\ IF HasNextPage(pageToken)
                  THEN pageToken' = pageToken + 1 /\ pc' = "search"
                  ELSE pageToken' = pageToken /\ pc' = "limit"
    /\ UNCHANGED <<envVars, config, preLimit, chanVars, spawned, sent, workerVars,
                   closer, aggVars, calls, written, outputDir, manifest,
                   manifestWrites, metricsSaved, ghostVars, panicked>>

\* "Apply limit if specified": the first Limit items of the list
Truncate(ids, limit) ==
    IF limit > 0 /\ Len(ids) > limit THEN SubSeq(ids, 1, limit) ELSE ids

\* ApplyLimit of a cleanup that hands its list to the worker pool
ApplyLimitToEngine ==
    /\ pc = "limit"
    /\ preLimit' = Len(messageIDs)
    /\ messageIDs' = Truncate(messageIDs, config.Limit)
    /\ pc' = "engine"
    /\ UNCHANGED <<envVars, config, pageToken, chanVars, spawned, sent, workerVars,
                   closer, aggVars, sideVars, ghostVars, panicked, retval>>

ApplyLimit ==
    /\ pc = "limit"
    /\ preLimit' = Len(messageIDs)
    /\ messageIDs' = Truncate(messageIDs, config.Limit)
    /\ pc' = IF op = "cleanup" THEN "cleanup" ELSE "engine"
    /\ UNCHANGED <<envVars, config, pageToken, chanVars, spawned, sent, workerVars,
                   closer, aggVars, sideVars, ghostVars, panicked, retval>>

\* ---- the worker pool: exportEmails / importEmails -----------------------
\* EngineStart without the clamp of the worker count
EngineStartNoClamp ==
    /\ pc = "engine"
    /\ result' = EmptyResult
    /\ processedEmails' = <<>>
    /\ jobs' = <<>> /\ jobsClosed' = FALSE
    /\ results' = <<>> /\ resultsClosed' = FALSE
    /\ pc' = "spawn"
    /\ UNCHANGED <<envVars, config, pageToken, messageIDs, preLimit, wgCount, spawned,
                   sent, workerVars, closer, processed, progress, sideVars, ghostVars,
                   panicked, retval>>

\* "Create worker pool": clamp the worker count, make the two channels
EngineStart ==
    /\ pc = "engine"
    /\ config' = IF config.ParallelWorkers <= 0
                 THEN [config EXCEPT !.ParallelWorkers = 1] ELSE config
    /\ result' = EmptyResult
    /\ processedEmails' = <<>>
    /\ jobs' = <<>> /\ jobsClosed' = FALSE
    /\ results' = <<>> /\ resultsClosed' = FALSE
    /\ pc' = "spawn"
    /\ UNCHANGED <<envVars, pageToken, messageIDs, preLimit, wgCount, spawned, sent,
                   workerVars, closer, processed, progress, sideVars, ghostVars,
                   panicked, retval>>

\* capacity of both channels: make(chan ..., len(messageIDs))
ChanCap == Len(messageIDs)

\* "Start workers": wg.Add(1); go worker(...)
StartWorker ==
    /\ pc = "spawn"
    /\ IF spawned < config.ParallelWorkers
       THEN /\ wgCount' = wgCount + 1
            /\ pool' = pool (+) SetToBag({Idle})
            /\ spawned' = spawned + 1
            /\ pc' = "spawn"
       ELSE /\ pc' = "send"
            /\ UNCHANGED <<wgCount, pool, spawned>>
    /\ UNCHANGED <<envVars, config, pageToken, messageIDs, preLimit, jobs, jobsClosed,
                   results, resultsClosed, sent, closer, aggVars,
                   sideVars, ghostVars, panicked, retval>>

\* "Send jobs": jobs <- messageID, then close(jobs)
SendJob ==
    /\ pc = "send"
    /\ sent < Len(messageIDs)
    /\ Len(jobs) < ChanCap
    /\ jobs' = Append(jobs, messageIDs[sent + 1])
    /\ sent' = sent + 1
    /\ UNCHANGED <<envVars, config, pc, pageToken, messageIDs, preLimit, jobsClosed,
                   results, resultsClosed, wgCount, spawned, workerVars, closer,
                   aggVars, sideVars, ghostVars, panicked, retval>>

\* CloseJobs without the close(jobs)
CloseJobsForgotten ==
    /\ pc = "send"
    /\ sent = Len(messageIDs)
    /\ pc' = "go_closer"
    /\ UNCHANGED <<envVars, config, pageToken, messageIDs, preLimit, jobs, jobsClosed,
                   results, resultsClosed, wgCount, spawned, sent, workerVars, closer,
                   aggVars, sideVars, ghostVars, panicked, retval>>

CloseJobs ==
    /\ pc = "send"
    /\ sent = Len(messageIDs)
    /\ jobsClosed' = TRUE
    /\ pc' = "go_closer"
    /\ UNCHANGED <<envVars, config, pageToken, messageIDs, preLimit, jobs,
                   results, resultsClosed, wgCount, spawned, sent, workerVars, closer,
                   aggVars, sideVars, ghostVars, panicked, retval>>

\* go func() { wg.Wait(); close(results) }()
GoCloser ==
    /\ pc = "go_closer"
    /\ closer' = "waiting"
    /\ pc' = "collect"
    /\ UNCHANGED <<envVars, config, pageToken, messageIDs, preLimit, chanVars,
                   spawned, sent, workerVars, aggVars, sideVars, ghostVars,
                   panicked, retval>>

\* wg.Wait() returns when the counter is zero; then close(results)
WaitDone == wgCount = 0

CloserRun ==
    /\ closer = "waiting"
    /\ WaitDone
    /\ resultsClosed' = TRUE
    /\ closer' = "done"
    /\ UNCHANGED <<envVars, config, pc, pageToken, messageIDs, preLimit, jobs,
                   jobsClosed, results, wgCount, spawned, sent, workerVars,
                   aggVars, sideVars, ghostVars, panicked, retval>>

\* ---- the per-item handlers ----------------------------------------------
Call(api, arg) == [api |-> api, arg |-> arg]
HandlerResult(size, err, cs, wrote) ==
    [Size |-> size, Error |-> err, calls |-> cs, wrote |-> wrote]

\* what can happen to one export: the first Get fails, the raw Get of
\* exportAsEML fails, the file cannot be written, or all goes well
ExportFates(format) ==
    {"ok", "getfail", "writefail"} \cup (IF format = "json" THEN {} ELSE {"rawfail"})

\* the calls exportAsEML / exportAsJSON / exportAsMbox add to the first Get
FormatCalls(format) ==
    IF format = "json" THEN <<>> ELSE <<Call("messages.get", "raw")>>

exportSingleEmail(id, fate, format) ==
    LET full == <<Call("messages.get", "full")>>
    IN  CASE fate = "getfail" ->
               HandlerResult(0, "failed to get message", full, FALSE)
          [] fate = "rawfail" ->
               HandlerResult(0, "failed to get raw message", full \o FormatCalls(format), FALSE)
          [] fate = "writefail" ->
               HandlerResult(0, "failed to write file", full \o FormatCalls(format), FALSE)
          [] OTHER ->
               HandlerResult(SizeOf(id), Nil, full \o FormatCalls(format), TRUE)

\* what can happen to one import: the file cannot be read, a .json file does
\* not parse, the remote rejects the message, or all goes well
ImportFates(ext) ==
    {"ok", "readfail", "rejected"} \cup (IF ext = "json" THEN {"parsefail"} ELSE {})

\* the call the importer issued before the duplication fix
ImportCallSend == Call("messages.send", "raw")

\* the call importEMLFile / importJSONFile / importMboxFile issue
ImportCall == Call("messages.import", "raw")

importSingleEmail(id, fate, ext) ==
    CASE fate = "readfail" -> HandlerResult(0, "failed to read file", <<>>, FALSE)
      [] fate = "parsefail" -> HandlerResult(0, "failed to parse JSON", <<>>, FALSE)
      [] fate = "rejected" ->
           HandlerResult(0, "failed to import message", <<ImportCall>>, FALSE)
      [] OTHER -> HandlerResult(SizeOf(id), Nil, <<ImportCall>>, FALSE)

HandlerFates(id) ==
    IF op = "export" THEN ExportFates(config.Format) ELSE ImportFates(ExtOf(id, rot))

Handler(id, fate) ==
    IF op = "export" THEN exportSingleEmail(id, fate, config.Format)
    ELSE importSingleEmail(id, fate, ExtOf(id, rot))

\* ---- exportWorker / importWorker ----------------------------------------
\* WorkerRecv that reads the head of the queue without removing it
WorkerRecvPeek ==
    /\ BagIn(Idle, pool)
    /\ jobs # <<>>
    /\ pool' = Move(pool, Idle, Handling(Head(jobs)))
    /\ jobs' = jobs
    /\ taken' = [taken EXCEPT ![Head(jobs)] = @ + 1]
    /\ UNCHANGED <<envVars, config, pc, pageToken, messageIDs, preLimit, jobsClosed,
                   results, resultsClosed, wgCount, spawned, sent, closer,
                   aggVars, sideVars, invoked, collected, outcome, panicked, retval>>

\* the item whose handler may run for any length of time, even forever
SlowItem == 1

\* WorkerRecv of a pool whose handlers run one at a time
WorkerRecvOneAtATime ==
    /\ BagIn(Idle, pool)
    /\ jobs # <<>>
    /\ \A ls \in BagToSet(pool) : ls.at # "handle"
    /\ pool' = Move(pool, Idle, Handling(Head(jobs)))
    /\ jobs' = Tail(jobs)
    /\ taken' = [taken EXCEPT ![Head(jobs)] = @ + 1]
    /\ UNCHANGED <<envVars, config, pc, pageToken, messageIDs, preLimit, jobsClosed,
                   results, resultsClosed, wgCount, spawned, sent, closer,
                   aggVars, sideVars, invoked, collected, outcome, panicked, retval>>

\* for messageID := range jobs: a worker blocked on the queue receives a job
WorkerRecv ==
    /\ BagIn(Idle, pool)
    /\ jobs # <<>>
    /\ pool' = Move(pool, Idle, Handling(Head(jobs)))
    /\ jobs' = Tail(jobs)
    /\ taken' = [taken EXCEPT ![Head(jobs)] = @ + 1]
    /\ UNCHANGED <<envVars, config, pc, pageToken, messageIDs, preLimit, jobsClosed,
                   results, resultsClosed, wgCount, spawned, sent, closer,
                   aggVars, sideVars, invoked, collected, outcome, panicked, retval>>

\* size, err := e.exportSingleEmail(messageID): the handler of the worker in
\* local state ls returns
WorkerHandle(ls) ==
    /\ ls.at = "handle"
    /\ BagIn(ls, pool)
    /\ \E fate \in HandlerFates(ls.job) :
         LET id == ls.job
             r == Handler(id, fate)
         IN  /\ pool' = Move(pool, ls,
                             Sending([MessageID |-> id, Size |-> r.Size, Error |-> r.Error]))
             /\ calls' = [calls EXCEPT ![id] = @ \o r.calls]
             /\ written' = IF r.wrote THEN written \cup {id} ELSE written
             /\ invoked' = [invoked EXCEPT ![id] = @ + 1]
             /\ outcome' = [outcome EXCEPT ![id] = fate]
    /\ UNCHANGED <<envVars, config, pc, pageToken, messageIDs, preLimit, chanVars,
                   spawned, sent, closer, aggVars, listCalls, outputDir, manifest,
                   manifestWrites, metricsSaved, taken, collected, panicked, retval>>

\* WorkerSend of a worker that returns from its loop after a failed item
WorkerSendReturnOnError(ls) ==
    /\ ls.at = "send"
    /\ BagIn(ls, pool)
    /\ ~resultsClosed
    /\ Len(results) < Len(messageIDs)
    /\ results' = Append(results, ls.res)
    /\ IF ls.res.Error # Nil
       THEN pool' = Move(pool, ls, Exited) /\ wgCount' = wgCount - 1
       ELSE pool' = Move(pool, ls, Idle) /\ wgCount' = wgCount
    /\ UNCHANGED <<envVars, config, pc, pageToken, messageIDs, preLimit, jobs,
                   jobsClosed, resultsClosed, spawned, sent,
                   closer, aggVars, sideVars, ghostVars, panicked, retval>>

\* WorkerSend of a worker that counts its own failure in the shared result
WorkerSendCounts(ls) ==
    /\ ls.at = "send"
    /\ BagIn(ls, pool)
    /\ ~resultsClosed
    /\ Len(results) < Len(messageIDs)
    /\ results' = Append(results, ls.res)
    /\ pool' = Move(pool, ls, Idle)
    /\ result' = IF ls.res.Error # Nil
                 THEN [result EXCEPT !.TotalFailed = @ + 1] ELSE result
    /\ UNCHANGED <<envVars, config, pc, pageToken, messageIDs, preLimit, jobs,
                   jobsClosed, resultsClosed, wgCount, spawned, sent,
                   closer, processed, progress, processedEmails, sideVars,
                   ghostVars, panicked, retval>>

\* results <- exportResult{...}; a send on a closed channel panics
WorkerSend(ls) ==
    /\ ls.at = "send"
    /\ BagIn(ls, pool)
    /\ IF resultsClosed
       THEN /\ panicked' = TRUE
            /\ pool' = Move(pool, ls, Crashed)
            /\ UNCHANGED results
       ELSE /\ Len(results) < ChanCap
            /\ results' = Append(results, ls.res)
            /\ pool' = Move(pool, ls, Idle)
            /\ UNCHANGED panicked
    /\ UNCHANGED <<envVars, config, pc, pageToken, messageIDs, preLimit, jobs,
                   jobsClosed, resultsClosed, wgCount, spawned, sent,
                   closer, aggVars, sideVars, ghostVars, retval>>

\* the range loop ends when jobs is closed and drained; defer wg.Done()
WorkerExit ==
    /\ BagIn(Idle, pool)
    /\ jobs = <<>> /\ jobsClosed
    /\ pool' = Move(pool, Idle, Exited)
    /\ wgCount' = wgCount - 1
    /\ UNCHANGED <<envVars, config, pc, pageToken, messageIDs, preLimit, jobs,
                   jobsClosed, results, resultsClosed, spawned, sent,
                   closer, aggVars, sideVars, ghostVars, panicked, retval>>

\* ---- the collector: "Collect results with progress indicator" -----------
Failure(id, err) == [EmailID |-> id, Error |-> err]
ProcessedEmail(id, size) == [ID |-> id, Size |-> size]

\* Aggregate with the failure branch recording nothing
AggregateDropFailure(res, r) ==
    IF r.Error # Nil
    THEN [res EXCEPT !.TotalFailed = @ + 1]
    ELSE [res EXCEPT !.TotalExported = @ + 1,
                     !.TotalSize = @ + r.Size]

\* Aggregate without the else: a failure is counted as exported as well
AggregateDouble(res, r) ==
    IF r.Error # Nil
    THEN [res EXCEPT !.TotalFailed = @ + 1,
                     !.TotalExported = @ + 1,
                     !.Failures = Append(@, Failure(r.MessageID, r.Error))]
    ELSE [res EXCEPT !.TotalExported = @ + 1,
                     !.TotalSize = @ + r.Size]

\* Aggregate that stores the size of the last success instead of adding it
AggregateOverwrite(res, r) ==
    IF r.Error # Nil
    THEN [res EXCEPT !.TotalFailed = @ + 1,
                     !.Failures = Append(@, Failure(r.MessageID, r.Error))]
    ELSE [res EXCEPT !.TotalExported = @ + 1,
                     !.TotalSize = r.Size]

\* one iteration of for exportRes := range results
Aggregate(res, r) ==
    IF r.Error # Nil
    THEN [res EXCEPT !.TotalFailed = @ + 1,
                     !.Failures = Append(@, Failure(r.MessageID, r.Error))]
    ELSE [res EXCEPT !.TotalExported = @ + 1,
                     !.TotalSize = @ + r.Size]

Collect ==
    /\ pc = "collect"
    /\ results # <<>>
    /\ LET r == Head(results)
       IN  /\ result' = Aggregate(result, r)
           /\ processedEmails' =
                 IF op = "export" /\ r.Error = Nil
                 THEN Append(processedEmails, ProcessedEmail(r.MessageID, r.Size))
                 ELSE processedEmails
           /\ collected' = [collected EXCEPT ![r.MessageID] = @ + 1]
    /\ results' = Tail(results)
    /\ processed' = processed + 1
    /\ progress' = Percent(processed + 1, Len(messageIDs))
    /\ UNCHANGED <<envVars, config, pc, pageToken, messageIDs, preLimit, jobs,
                   jobsClosed, resultsClosed, wgCount, spawned, sent, workerVars,
                   closer, sideVars, taken, invoked, outcome, panicked, retval>>

\* the range loop ends when results is closed and drained
CollectEnd ==
    /\ pc = "collect"
    /\ results = <<>> /\ resultsClosed
    /\ pc' = IF op = "export" THEN "save" ELSE "finish"
    /\ UNCHANGED <<envVars, config, pageToken, messageIDs, preLimit, chanVars,
                   spawned, sent, workerVars, closer, aggVars, sideVars, ghostVars,
                   panicked, retval>>

\* saveProcessedEmailsFilter called whatever the number of processed emails
saveProcessedEmailsFilterAlways(file, emails) == FileOf(emails)

\* "Save processed emails filter file": only when at least one item succeeded
saveProcessedEmailsFilter(file, emails) ==
    IF Len(emails) > 0 THEN FileOf(emails) ELSE file

SaveManifest ==
    /\ pc = "save"
    /\ manifest' = saveProcessedEmailsFilter(manifest, processedEmails)
    /\ manifestWrites' = IF manifest' # manifest \/ Len(processedEmails) > 0
                         THEN manifestWrites + 1 ELSE manifestWrites
    /\ pc' = "finish"
    /\ UNCHANGED <<envVars, config, pageToken, messageIDs, preLimit, chanVars,
                   spawned, sent, workerVars, closer, aggVars, calls, listCalls,
                   written, outputDir, metricsSaved, ghostVars, panicked, retval>>

\* result.TotalMatched = len(messageIDs) (TotalFound in import and cleanup)
SetTotalMatched(res, ids) == [res EXCEPT !.TotalMatched = Len(ids)]

Finish ==
    /\ pc = "finish"
    /\ result' = SetTotalMatched(result, messageIDs)
    /\ metricsSaved' \in BOOLEAN
    /\ pc' = "returned"
    /\ retval' = "result"
    /\ UNCHANGED <<envVars, config, pageToken, messageIDs, preLimit, chanVars,
                   spawned, sent, workerVars, closer, processed, progress,
                   processedEmails, calls, listCalls, written, outputDir, manifest,
                   manifestWrites, ghostVars, panicked>>

\* ---- Importer.Import ----------------------------------------------------
\* findEmailFiles: the files of the input directory with a supported extension
findEmailFiles == mailbox

ImportScan ==
    /\ pc = "entry" /\ op = "import"
    /\ \E ok \in BOOLEAN :
          IF ok
          THEN messageIDs' = findEmailFiles /\ pc' = "limit" /\ retval' = "none"
          ELSE messageIDs' = messageIDs /\ pc' = "failed" /\ retval' = "error"
    /\ UNCHANGED <<envVars, config, pageToken, preLimit, chanVars, spawned, sent,
                   workerVars, closer, aggVars, sideVars, ghostVars, panicked>>

\* ---- Cleaner.Cleanup ----------------------------------------------------
\* loadProcessedEmails: the identifiers of the manifest, in file order
loadProcessedEmails(file) == [i \in 1..Len(file.entries) |-> file.entries[i].ID]

CleanupLoad ==
    /\ pc = "entry" /\ op = "cleanup"
    /\ \E ok \in BOOLEAN :
          IF ok
          THEN /\ messageIDs' = loadProcessedEmails(manifest)
               /\ pc' = "limit" /\ retval' = "none"
          ELSE messageIDs' = messageIDs /\ pc' = "failed" /\ retval' = "error"
    /\ UNCHANGED <<envVars, config, pageToken, preLimit, chanVars, spawned, sent,
                   workerVars, closer, aggVars, sideVars, ghostVars, panicked>>

\* archiveEmail that moves the message to the trash instead
archiveEmailTrash(fate) ==
    [Error |-> IF fate = "ok" THEN Nil ELSE "failed to archive email",
     calls |-> <<Call("messages.modify", "add TRASH")>>]

archiveEmail(fate) ==
    [Error |-> IF fate = "ok" THEN Nil ELSE "failed to archive email",
     calls |-> <<Call("messages.modify", "remove INBOX")>>]

deleteEmail(fate) ==
    [Error |-> IF fate = "ok" THEN Nil ELSE "failed to delete email",
     calls |-> <<Call("messages.delete", "")>>]

\* cleanupSingleEmail without the dry-run branch
cleanupSingleEmailNoDryRun(c, fate) ==
    CASE c.Action = "archive" -> archiveEmail(fate)
      [] c.Action = "delete" -> deleteEmail(fate)
      [] OTHER -> [Error |-> "unsupported action", calls |-> <<>>]

cleanupSingleEmail(c, fate) ==
    IF c.DryRun THEN [Error |-> Nil, calls |-> <<>>]
    ELSE CASE c.Action = "archive" -> archiveEmail(fate)
           [] c.Action = "delete" -> deleteEmail(fate)
           [] OTHER -> [Error |-> "unsupported action", calls |-> <<>>]

\* the remote call of a cleanup either succeeds or fails
CleanupFates(c) == IF c.DryRun THEN {"ok"} ELSE {"ok", "apifail"}

\* CleanupOne that returns the error of a failed remote call to the caller
CleanupOneAbort ==
    /\ pc = "cleanup"
    /\ processed < Len(messageIDs)
    /\ \E fate \in CleanupFates(config) :
         LET id == messageIDs[processed + 1]
             r == cleanupSingleEmail(config, fate)
         IN  /\ result' = IF r.Error # Nil THEN result
                          ELSE Aggregate(result,
                                   [MessageID |-> id, Size |-> 0, Error |-> r.Error])
             /\ pc' = IF r.Error # Nil THEN "failed" ELSE pc
             /\ retval' = IF r.Error # Nil THEN "error" ELSE retval
             /\ calls' = [calls EXCEPT ![id] = @ \o r.calls]
             /\ invoked' = [invoked EXCEPT ![id] = @ + 1]
             /\ outcome' = [outcome EXCEPT ![id] = fate]
    /\ processed' = processed + 1
    /\ progress' = Percent(processed + 1, Len(messageIDs))
    /\ UNCHANGED <<envVars, config, pageToken, messageIDs, preLimit, chanVars,
                   spawned, sent, workerVars, closer, processedEmails, listCalls,
                   written, outputDir, manifest, manifestWrites, metricsSaved, taken, collected,
                   panicked>>

\* one iteration of the loop of cleanupEmails
CleanupOne ==
    /\ pc = "cleanup"
    /\ processed < Len(messageIDs)
    /\ \E fate \in CleanupFates(config) :
         LET id == messageIDs[processed + 1]
             r == cleanupSingleEmail(config, fate)
         IN  /\ result' = Aggregate(result,
                              [MessageID |-> id, Size |-> 0, Error |-> r.Error])
             /\ calls' = [calls EXCEPT ![id] = @ \o r.calls]
             /\ invoked' = [invoked EXCEPT ![id] = @ + 1]
             /\ outcome' = [outcome EXCEPT ![id] = fate]
    /\ processed' = processed + 1
    /\ progress' = Percent(processed + 1, Len(messageIDs))
    /\ UNCHANGED <<envVars, config, pc, pageToken, messageIDs, preLimit, chanVars,
                   spawned, sent, workerVars, closer, processedEmails, listCalls,
                   written, outputDir, manifest, manifestWrites, metricsSaved, taken, collected,
                   panicked, retval>>

CleanupEnd ==
    /\ pc = "cleanup"
    /\ processed = Len(messageIDs)
    /\ pc' = "finish"
    /\ UNCHANGED <<envVars, config, pageToken, messageIDs, preLimit, chanVars,
                   spawned, sent, workerVars, closer, aggVars, sideVars, ghostVars,
                   panicked, retval>>

\* ---- Importer.findEmailFiles: the walk of the input directory ------------
\* the paths an input directory may hold, relative to it, as characters and
\* in the lexical order filepath.WalkDir visits them
AllPaths ==
    <<<<"B", ".", "E", "M", "L">>,
      <<"R", "E", "A", "D", "M", "E">>,
      <<"a", ".", "e", "m", "l">>,
      <<"c", ".", "J", "s", "o", "n">>,
      <<"d", ".", "m", "b", "o", "x">>,
      <<"e", "m", "l">>,
      <<"n", ".", "t", "x", "t">>,
      <<"p", ".", "p", "d", "f">>,
      <<"s">>,
      <<"s", "/", "e", ".", "e", "m", "l">>,
      <<"t", ".", "e", "m", "l">>,
      <<"t", ".", "e", "m", "l", "/", "f">>>>

\* the paths of AllPaths that are directories
DirPaths ==
    {<<"s">>, <<"t", ".", "e", "m", "l">>}

\* the input directories: at most MaxEntries paths, every path with its
\* parent directory, in walk order
Parent(path) ==
    {SubSeq(path, 1, i - 1) : i \in {j \in 1..Len(path) : path[j] = "/"}}
PathSets ==
    {S \in SUBSET (1..Len(AllPaths)) :
        /\ Cardinality(S) <= MaxEntries
        /\ \A i \in S : \A d \in Parent(AllPaths[i]) : \E j \in S : AllPaths[j] = d}
RECURSIVE Listing(_, _)
Listing(S, i) ==
    IF i > Len(AllPaths) THEN <<>>
    ELSE (IF i \in S THEN <<AllPaths[i]>> ELSE <<>>) \o Listing(S, i + 1)
Trees == {Listing(S, 1) : S \in PathSets}

\* d.IsDir()
IsDir(path) == path \in DirPaths

\* filepath.Ext: the suffix from the last dot of the last path element
RECURSIVE ExtFrom(_, _)
ExtFrom(path, i) ==
    IF i = 0 THEN <<>>
    ELSE IF path[i] = "/" THEN <<>>
    ELSE IF path[i] = "." THEN SubSeq(path, i, Len(path))
    ELSE ExtFrom(path, i - 1)
Ext(path) == ExtFrom(path, Len(path))

\* ToLowerChar of a comparison that forgets strings.ToLower
ToLowerCharKept(c) == c

\* strings.ToLower, letter by letter
ToLowerChar(c) ==
    CASE c = "B" -> "b" [] c = "E" -> "e" [] c = "M" -> "m" [] c = "L" -> "l"
      [] c = "R" -> "r" [] c = "A" -> "a" [] c = "D" -> "d" [] c = "J" -> "j"
      [] c = "W" -> "w" [] c = "Y" -> "y" [] c = "H" -> "h" [] c = "X" -> "x"
      [] OTHER -> c
ToLower(str) == [i \in 1..Len(str) |-> ToLowerChar(str[i])]

\* ext == ".eml" || ext == ".json" || ext == ".mbox"
SupportedExt(ext) ==
    ext \in {<<".", "e", "m", "l">>, <<".", "j", "s", "o", "n">>, <<".", "m", "b", "o", "x">>}

ScanInit ==
    /\ op = "import"
    /\ config \in {c \in ImportConfigs : c.ParallelWorkers = 1 /\ c.Limit = 0}
    /\ concurrency = config.ParallelWorkers
    /\ rot = 0
    /\ mailbox = <<>>
    /\ manifest = NoFile
    /\ Fresh
    /\ tree \in Trees
    /\ walked = 0 /\ emailFiles = <<>> /\ walkState = "walking"
    /\ FilterIdle
    /\ TripIdle

runVars == <<op, config, concurrency, rot, mailbox, pc, engineVars, retval>>

\* one call of the function findEmailFiles gives to filepath.WalkDir; a
\* directory that cannot be read is reported to it as an error
WalkDirFunc ==
    /\ walkState = "walking"
    /\ walked < Len(tree)
    /\ LET path == tree[walked + 1]
       IN  \E err \in (IF IsDir(path) THEN BOOLEAN ELSE {FALSE}) :
              IF err
              THEN walkState' = "error" /\ emailFiles' = <<>>
              ELSE /\ walkState' = walkState
                   /\ emailFiles' =
                         IF ~IsDir(path) /\ SupportedExt(ToLower(Ext(path)))
                         THEN Append(emailFiles, path) ELSE emailFiles
    /\ walked' = walked + 1
    /\ UNCHANGED <<runVars, filterVars, tripVars, tree>>

\* filepath.WalkDir returns nil: findEmailFiles returns emailFiles
WalkDone ==
    /\ walkState = "walking"
    /\ walked = Len(tree)
    /\ walkState' = "done"
    /\ UNCHANGED <<runVars, filterVars, tripVars, tree, walked, emailFiles>>

ScanNext ==
    \/ WalkDirFunc
    \/ WalkDone

ScanSpec == ScanInit /\ [][ScanNext]_vars

\* ---- filters: strings ---------------------------------------------------
\* flag values that the code takes apart are sequences of one-character
\* strings; Str gives the string a sequence spells
RECURSIVE Str(_)
Str(cs) == IF cs = <<>> THEN "" ELSE Head(cs) \o Str(Tail(cs))

\* unicode.IsSpace, for the characters of the inputs
IsSpace(c) == c \in {" ", "\t"}

\* strings.TrimSpace
RECURSIVE TrimLeft(_)
TrimLeft(cs) ==
    IF cs # <<>> /\ IsSpace(Head(cs)) THEN TrimLeft(Tail(cs)) ELSE cs
RECURSIVE TrimRight(_)
TrimRight(cs) ==
    IF cs # <<>> /\ IsSpace(cs[Len(cs)]) THEN TrimRight(SubSeq(cs, 1, Len(cs) - 1)) ELSE cs
TrimSpace(cs) == TrimRight(TrimLeft(cs))

\* ToUpperChar of a comparison that forgets strings.ToUpper
ToUpperCharKept(c) == c

\* strings.ToUpper, letter by letter
ToUpperChar(c) ==
    CASE c = "b" -> "B" [] c = "k" -> "K" [] c = "m" -> "M" [] c = "g" -> "G"
      [] c = "t" -> "T" [] c = "x" -> "X" [] c = "s" -> "S" [] c = "e" -> "E"
      [] OTHER -> c
ToUpper(str) == [i \in 1..Len(str) |-> ToUpperChar(str[i])]

\* strings.Fields: the maximal runs of characters that are not white space
RECURSIVE Fields(_)
Fields(cs) ==
    LET s == TrimLeft(cs)
        n == IF \E i \in 1..Len(s) : IsSpace(s[i])
             THEN (CHOOSE i \in 1..Len(s) : IsSpace(s[i]) /\ \A j \in 1..(i - 1) : ~IsSpace(s[j])) - 1
             ELSE Len(s)
    IN  IF s = <<>> THEN <<>>
        ELSE <<SubSeq(s, 1, n)>> \o Fields(SubSeq(s, n + 1, Len(s)))

\* strings.Split(s, ","), for s that is not empty
RECURSIVE Split(_)
Split(cs) ==
    IF \E i \in 1..Len(cs) : cs[i] = ","
    THEN LET n == CHOOSE i \in 1..Len(cs) : cs[i] = "," /\ \A j \in 1..(i - 1) : cs[j] # ","
         IN  <<SubSeq(cs, 1, n - 1)>> \o Split(SubSeq(cs, n + 1, Len(cs)))
    ELSE <<cs>>

\* strings.Join(parts, " ")
RECURSIVE Join(_)
Join(ss) ==
    IF ss = <<>> THEN ""
    ELSE IF Len(ss) = 1 THEN ss[1]
    ELSE ss[1] \o " " \o Join(Tail(ss))

Digits == <<"0", "1", "2", "3", "4", "5", "6", "7", "8", "9">>
IsDigit(c) == \E d \in 1..10 : Digits[d] = c
DigitVal(c) == (CHOOSE d \in 1..10 : Digits[d] = c) - 1

\* the value of a sequence of decimal digits
RECURSIVE Decimal(_)
Decimal(ds) ==
    IF ds = <<>> THEN 0 ELSE 10 * Decimal(SubSeq(ds, 1, Len(ds) - 1)) + DigitVal(ds[Len(ds)])

\* ---- filters: int64 byte counts -----------------------------------------
\* a byte count is a natural number in base 1024, least significant digit
\* first and no leading zero digit, so that terabytes are representable
RECURSIVE Int64Of(_)
Int64Of(n) == IF n = 0 THEN <<>> ELSE <<n % 1024>> \o Int64Of(n \div 1024)

RECURSIVE Norm(_)
Norm(l) == IF l # <<>> /\ l[Len(l)] = 0 THEN Norm(SubSeq(l, 1, Len(l) - 1)) ELSE l

\* l * 1024^k
Shl(l, k) == IF l = <<>> THEN <<>> ELSE [i \in 1..k |-> 0] \o l

\* the digits 1..i of l divided by d, with carry coming from the digits above
RECURSIVE DivFrom(_, _, _, _)
DivFrom(l, i, carry, d) ==
    IF i = 0 THEN <<>>
    ELSE LET cur == carry * 1024 + l[i]
         IN  DivFrom(l, i - 1, cur % d, d) \o <<cur \div d>>
RECURSIVE ModFrom(_, _, _, _)
ModFrom(l, i, carry, d) ==
    IF i = 0 THEN carry ELSE ModFrom(l, i - 1, (carry * 1024 + l[i]) % d, d)

\* l \div d and l % d
DivBy(l, d) == Norm(DivFrom(l, Len(l), 0, d))
ModBy(l, d) == ModFrom(l, Len(l), 0, d)

\* a > 0
IsPositive(l) == l # <<>>

\* a >= b
RECURSIVE GeqFrom(_, _, _)
GeqFrom(a, b, i) ==
    IF i = 0 THEN TRUE
    ELSE IF a[i] # b[i] THEN a[i] > b[i]
    ELSE GeqFrom(a, b, i - 1)
Geq(a, b) ==
    IF Len(a) # Len(b) THEN Len(a) > Len(b) ELSE GeqFrom(a, b, Len(a))

\* fmt.Sprintf("%d", l)
RECURSIVE FormatDigits(_)
FormatDigits(l) ==
    IF l = <<>> THEN "" ELSE FormatDigits(DivBy(l, 10)) \o ToString(ModBy(l, 10))
FormatInt64(l) == IF l = <<>> THEN "0" ELSE FormatDigits(l)

\* ---- filters: ParseSize and ParseDuration -------------------------------
Pow10(n) == CASE n = 0 -> 1 [] n = 1 -> 10 [] n = 2 -> 100 [] OTHER -> 1000

\* strconv.ParseFloat of a string of digits and dots: the value is
\* mant / 10^dec
ParseFloat(numStr) ==
    LET dots == {i \in 1..Len(numStr) : numStr[i] = "."}
        ds == SelectSeq(numStr, LAMBDA c : c # ".")
    IN  IF Cardinality(dots) > 1 \/ ds = <<>>
        THEN [ok |-> FALSE, mant |-> 0, dec |-> 0]
        ELSE [ok |-> TRUE, mant |-> Decimal(ds),
              dec |-> IF dots = {} THEN 0 ELSE Len(numStr) - (CHOOSE i \in dots : TRUE)]

\* the switch of ParseSize: the power of 1024 of a unit, -1 for the default
MultiplierOf(unit) ==
    CASE unit = <<>> -> 0
      [] unit = <<"B">> -> 0
      [] unit = <<"K", "B">> -> 1
      [] unit = <<"M", "B">> -> 2
      [] unit = <<"G", "B">> -> 3
      [] unit = <<"T", "B">> -> 4
      [] OTHER -> -1

\* filters.ParseSize: int64(num * float64(multiplier)) truncates
ParseSize(sizeStr) ==
    LET s == ToUpper(TrimSpace(sizeStr))
        isNum(c) == IsDigit(c) \/ c = "."
        n == IF \E i \in 1..Len(s) : ~isNum(s[i])
             THEN (CHOOSE i \in 1..Len(s) : ~isNum(s[i]) /\ \A j \in 1..(i - 1) : isNum(s[j])) - 1
             ELSE Len(s)
        numStr == SubSeq(s, 1, n)
        unit == SubSeq(s, n + 1, Len(s))
        num == ParseFloat(numStr)
        k == MultiplierOf(unit)
    IN  IF numStr = <<>> \/ ~num.ok \/ k < 0
        THEN [ok |-> FALSE, size |-> <<>>]
        ELSE [ok |-> TRUE, size |-> DivBy(Shl(Int64Of(num.mant), k), Pow10(num.dec))]

\* strconv.Atoi: an optional sign and at least one digit
Atoi(numStr) ==
    LET signed == numStr # <<>> /\ numStr[1] \in {"+", "-"}
        ds == IF signed THEN Tail(numStr) ELSE numStr
    IN  IF ds = <<>> \/ \E i \in 1..Len(ds) : ~IsDigit(ds[i])
        THEN [ok |-> FALSE, num |-> 0]
        ELSE [ok |-> TRUE,
              num |-> IF signed /\ numStr[1] = "-" THEN 0 - Decimal(ds) ELSE Decimal(ds)]

\* HoursOf with months of 31 days
HoursOfMonth31(unit) ==
    CASE unit = "d" -> 24
      [] unit = "w" -> 7 * 24
      [] unit = "m" -> 31 * 24
      [] unit = "y" -> 365 * 24
      [] unit = "h" -> 1
      [] OTHER -> 0

\* the switch of ParseDuration: the hours of one unit, 0 for the default
HoursOf(unit) ==
    CASE unit = "d" -> 24
      [] unit = "w" -> 7 * 24
      [] unit = "m" -> 30 * 24
      [] unit = "y" -> 365 * 24
      [] unit = "h" -> 1
      [] OTHER -> 0

\* filters.ParseDuration; a time.Duration is a number of hours
ParseDuration(durationStr) ==
    LET s == ToLower(TrimSpace(durationStr))
        numStr == SubSeq(s, 1, Len(s) - 1)
        unit == s[Len(s)]
        num == Atoi(numStr)
    IN  IF Len(s) < 2 THEN [ok |-> FALSE, duration |-> 0]
        ELSE IF ~num.ok \/ HoursOf(unit) = 0 THEN [ok |-> FALSE, duration |-> 0]
        ELSE [ok |-> TRUE, duration |-> num.num * HoursOf(unit)]

\* ---- filters: buildFilterConfig, BuildGmailQuery, Validate --------------
\* cli.buildFilterConfig: the first flag that does not parse is the error
buildFilterConfig(f) ==
    LET greater == ParseSize(f.sizeGreaterThan)
        less == ParseSize(f.sizeLessThan)
        within == ParseDuration(f.dateWithin)
    IN  IF \/ f.sizeGreaterThan # <<>> /\ ~greater.ok
           \/ f.sizeLessThan # <<>> /\ ~less.ok
           \/ f.dateWithin # <<>> /\ ~within.ok
        THEN [ok |-> FALSE, config |-> ZeroConfig]
        ELSE [ok |-> TRUE,
              config |->
                 [To |-> f.to, From |-> f.from, Subject |-> f.subject,
                  IncludesWords |-> f.includesWords,
                  ExcludesWords |-> f.excludesWords,
                  SizeGreaterThan |-> IF f.sizeGreaterThan # <<>> THEN greater.size ELSE <<>>,
                  SizeLessThan |-> IF f.sizeLessThan # <<>> THEN less.size ELSE <<>>,
                  DateWithin |-> IF f.dateWithin # <<>> THEN within.duration ELSE 0,
                  DateAfter |-> f.dateAfter, DateBefore |-> f.dateBefore,
                  HasAttachment |-> IF f.noAttachment THEN "false"
                                    ELSE IF f.hasAttachment THEN "true" ELSE "nil",
                  ExcludeChats |-> f.excludeChats,
                  Labels |-> f.labels, SearchScope |-> f.searchScope]]

\* one element of parts: key names the statement that appended it
Part(key, text) == [key |-> key, text |-> text]
When(cond, ps) == IF cond THEN ps ELSE <<>>

\* t.Format("2006/01/02")
Pad2(n) == IF n < 10 THEN "0" \o ToString(n) ELSE ToString(n)
Format(t) == ToString(t.Y) \o "/" \o Pad2(t.M) \o "/" \o Pad2(t.D)

\* "Basic filters"
BasicParts(c) ==
    LET words == Fields(c.ExcludesWords)
    IN  When(c.To # "", <<Part("to", "to:" \o c.To)>>)
        \o When(c.From # "", <<Part("from", "from:" \o c.From)>>)
        \o When(c.Subject # "", <<Part("subject", "subject:(" \o c.Subject \o ")")>>)
        \o When(c.IncludesWords # "", <<Part("includes", c.IncludesWords)>>)
        \o When(c.ExcludesWords # <<>>,
                [i \in 1..Len(words) |-> Part("excludes", "-" \o Str(words[i]))])

\* SizeParts with the maximum appended before the minimum
SizePartsMaxFirst(c) ==
    When(IsPositive(c.SizeLessThan),
         <<Part("-size", "-size:" \o FormatInt64(c.SizeLessThan))>>)
    \o When(IsPositive(c.SizeGreaterThan),
            <<Part("size", "size:" \o FormatInt64(c.SizeGreaterThan))>>)

\* "Size filters"
SizeParts(c) ==
    When(IsPositive(c.SizeGreaterThan),
         <<Part("size", "size:" \o FormatInt64(c.SizeGreaterThan))>>)
    \o When(IsPositive(c.SizeLessThan),
            <<Part("-size", "-size:" \o FormatInt64(c.SizeLessThan))>>)

\* Days that rounds a started day up
DaysRoundedUp(duration) == (duration + 23) \div 24

\* int(c.DateWithin.Hours() / 24)
Days(duration) == duration \div 24

\* "Date filters"
DateParts(c) ==
    When(c.DateWithin > 0,
         <<Part("newer_than", "newer_than:" \o ToString(Days(c.DateWithin)) \o "d")>>)
    \o When(c.DateAfter # NoDate, <<Part("after", "after:" \o Format(c.DateAfter))>>)
    \o When(c.DateBefore # NoDate, <<Part("before", "before:" \o Format(c.DateBefore))>>)

\* "Boolean filters"
BooleanParts(c) ==
    When(c.HasAttachment # "nil",
         <<Part("attachment", IF c.HasAttachment = "true" THEN "has:attachment"
                              ELSE "-has:attachment")>>)
    \o When(c.ExcludeChats, <<Part("-in:chats", "-in:chats")>>)

\* "Labels" and "Search scope"
LabelParts(c) ==
    LET split == Split(c.Labels)
        labels == SelectSeq([i \in 1..Len(split) |-> TrimSpace(split[i])],
                            LAMBDA label : label # <<>>)
    IN  When(c.Labels # <<>>,
             [i \in 1..Len(labels) |-> Part("labels", "label:" \o Str(labels[i]))])
ScopeParts(c) ==
    When(c.SearchScope # "" /\ c.SearchScope # "all_mail",
         <<Part("in", "in:" \o c.SearchScope)>>)

\* the parts slice of filters.BuildGmailQuery
PartsOf(c) ==
    BasicParts(c) \o SizeParts(c) \o DateParts(c) \o BooleanParts(c)
    \o LabelParts(c) \o ScopeParts(c)

\* strings.Join(parts, " ") of the texts
QueryOf(ps) == Join([i \in 1..Len(ps) |-> ps[i].text])

\* a.After(b)
After(a, b) ==
    \/ a.Y > b.Y
    \/ a.Y = b.Y /\ a.M > b.M
    \/ a.Y = b.Y /\ a.M = b.M /\ a.D > b.D

validScopes == {"all_mail", "inbox", "sent", "drafts", "spam", "trash"}

\* filters.Validate returns nil
Validate(c) ==
    /\ ~(/\ IsPositive(c.SizeGreaterThan) /\ IsPositive(c.SizeLessThan)
         /\ Geq(c.SizeGreaterThan, c.SizeLessThan))
    /\ ~(c.DateAfter # NoDate /\ c.DateBefore # NoDate /\ After(c.DateAfter, c.DateBefore))
    /\ (c.SearchScope # "" => c.SearchScope \in validScopes)

\* ---- filters: the command lines ----------------------------------------
\* filter flags given on one command line at most, unless all are given
MaxPresent == 2

\* size flags, each with the number of bytes it denotes as a prefix times a
\* power of 1024, fractions of a byte dropped ("" when it denotes none)
SizeCases ==
    <<[in |-> <<"1", "0", "2", "4">>, bytes |-> "1024"],
      [in |-> <<"5", "M", "B">>, bytes |-> "5242880"],
      [in |-> <<"5", "m", "b">>, bytes |-> "5242880"],
      [in |-> <<"5", "M", "b">>, bytes |-> "5242880"],
      [in |-> <<"1", "0", "2", "4", "B">>, bytes |-> "1024"],
      [in |-> <<"7", "b">>, bytes |-> "7"],
      [in |-> <<"5", "0", "0", "K", "B">>, bytes |-> "512000"],
      [in |-> <<"2", "k", "b">>, bytes |-> "2048"],
      [in |-> <<"2", "G", "B">>, bytes |-> "2147483648"],
      [in |-> <<"1", "g", "B">>, bytes |-> "1073741824"],
      [in |-> <<"1", "T", "B">>, bytes |-> "1099511627776"],
      [in |-> <<"3", "t", "b">>, bytes |-> "3298534883328"],
      [in |-> <<"1", ".", "5", "K", "B">>, bytes |-> "1536"],
      [in |-> <<"0", ".", "5", "M", "B">>, bytes |-> "524288"],
      [in |-> <<"0", ".", "2", "5", "k", "b">>, bytes |-> "256"],
      [in |-> <<"1", ".", "5", "B">>, bytes |-> "1"],
      [in |-> <<"0">>, bytes |-> "0"],
      [in |-> <<" ", "5", "M", "B", " ">>, bytes |-> "5242880"],
      [in |-> <<"M", "B">>, bytes |-> ""],
      [in |-> <<"i", "n", "v", "a", "l", "i", "d">>, bytes |-> ""],
      [in |-> <<"5", "X", "B">>, bytes |-> ""],
      [in |-> <<"5", "M">>, bytes |-> ""],
      [in |-> <<"5", "K", "B", "S">>, bytes |-> ""],
      [in |-> <<"1", ".", "2", ".", "3", "M", "B">>, bytes |-> ""],
      [in |-> <<".">>, bytes |-> ""],
      [in |-> <<"-", "5", "M", "B">>, bytes |-> ""],
      [in |-> <<"5", " ", "M", "B">>, bytes |-> ""],
      [in |-> <<"5", "e", "3">>, bytes |-> ""],
      [in |-> <<"k", "b", "1">>, bytes |-> ""]>>

\* duration flags, each with the hours it denotes as a magnitude times a
\* unit and the whole days in them (ok is FALSE when it denotes none)
DurationCases ==
    <<[in |-> <<"3", "0", "d">>, ok |-> TRUE, hours |-> 720, days |-> 30],
      [in |-> <<"2", "w">>, ok |-> TRUE, hours |-> 336, days |-> 14],
      [in |-> <<"6", "m">>, ok |-> TRUE, hours |-> 4320, days |-> 180],
      [in |-> <<"1", "y">>, ok |-> TRUE, hours |-> 8760, days |-> 365],
      [in |-> <<"1", "2", "h">>, ok |-> TRUE, hours |-> 12, days |-> 0],
      [in |-> <<"3", "6", "h">>, ok |-> TRUE, hours |-> 36, days |-> 1],
      [in |-> <<"4", "8", "h">>, ok |-> TRUE, hours |-> 48, days |-> 2],
      [in |-> <<"1", "d">>, ok |-> TRUE, hours |-> 24, days |-> 1],
      [in |-> <<"7", "D">>, ok |-> TRUE, hours |-> 168, days |-> 7],
      [in |-> <<"0", "d">>, ok |-> TRUE, hours |-> 0, days |-> 0],
      [in |-> <<"-", "5", "d">>, ok |-> TRUE, hours |-> -120, days |-> -5],
      [in |-> <<"+", "3", "w">>, ok |-> TRUE, hours |-> 504, days |-> 21],
      [in |-> <<" ", "2", "w", " ">>, ok |-> TRUE, hours |-> 336, days |-> 14],
      [in |-> <<"1", "0", "y">>, ok |-> TRUE, hours |-> 87600, days |-> 3650],
      [in |-> <<"9", "0", "m">>, ok |-> TRUE, hours |-> 64800, days |-> 2700],
      [in |-> <<"x">>, ok |-> FALSE, hours |-> 0, days |-> 0],
      [in |-> <<"d">>, ok |-> FALSE, hours |-> 0, days |-> 0],
      [in |-> <<"5">>, ok |-> FALSE, hours |-> 0, days |-> 0],
      [in |-> <<"3", "0">>, ok |-> FALSE, hours |-> 0, days |-> 0],
      [in |-> <<"5", "x">>, ok |-> FALSE, hours |-> 0, days |-> 0],
      [in |-> <<"1", ".", "5", "d">>, ok |-> FALSE, hours |-> 0, days |-> 0],
      [in |-> <<"x", "d">>, ok |-> FALSE, hours |-> 0, days |-> 0],
      [in |-> <<"3", " ", "d">>, ok |-> FALSE, hours |-> 0, days |-> 0],
      [in |-> <<"5", "m", "i", "n">>, ok |-> FALSE, hours |-> 0, days |-> 0],
      [in |-> <<"i", "n", "v", "a", "l", "i", "d">>, ok |-> FALSE, hours |-> 0, days |-> 0],
      [in |-> <<"-", "d">>, ok |-> FALSE, hours |-> 0, days |-> 0],
      [in |-> <<"1", "e", "2", "d">>, ok |-> FALSE, hours |-> 0, days |-> 0]>>

Date(y, m, d) == [set |-> TRUE, Y |-> y, M |-> m, D |-> d]

\* a command line that gives every filter flag
GivenFlags ==
    [to |-> "a@x.io", from |-> "b@y.io", subject |-> "status report",
     includesWords |-> "budget 2024",
     excludesWords |-> <<"s", "p", "a", "m", " ", " ", "j", "u", "n", "k">>,
     sizeGreaterThan |-> <<"1", "K", "B">>, sizeLessThan |-> <<"5", "M", "B">>, dateWithin |-> <<"3", "0", "d">>,
     dateAfter |-> Date(2024, 1, 5), dateBefore |-> Date(2024, 12, 31),
     hasAttachment |-> TRUE, noAttachment |-> TRUE, excludeChats |-> TRUE,
     labels |-> <<"w", "o", "r", "k", ",", " ", ",", "h", "o", "m", "e">>, searchScope |-> "inbox"]

FlagNames == DOMAIN NoFlags
WithFlags(S) == [f \in FlagNames |-> IF f \in S THEN GivenFlags[f] ELSE NoFlags[f]]

\* command lines that give some of the flags, each with one value
PresenceFlags ==
    {WithFlags(S) : S \in {T \in SUBSET FlagNames : Cardinality(T) <= MaxPresent \/ T = FlagNames}}

\* command lines that give bounds and a scope for Validate to compare
BoundSizes == {<<>>, <<"1", "K", "B">>, <<"2", "K", "B">>, <<"0">>}
BoundDates == {NoDate, Date(2024, 1, 5), Date(2024, 1, 6), Date(2023, 12, 31)}
Scopes == {"", "all_mail", "inbox", "trash", "outbox", "INBOX"}
BoundFlags ==
    {[NoFlags EXCEPT !.sizeGreaterThan = g, !.sizeLessThan = l, !.searchScope = s] :
        g \in BoundSizes, l \in BoundSizes, s \in Scopes}
    \cup {[NoFlags EXCEPT !.dateAfter = a, !.dateBefore = b, !.sizeGreaterThan = g] :
        a \in BoundDates, b \in BoundDates, g \in BoundSizes}

\* command lines that give one size or one duration
SizeFlags ==
    {[NoFlags EXCEPT !.sizeGreaterThan = SizeCases[i].in] : i \in 1..Len(SizeCases)}
    \cup {[NoFlags EXCEPT !.sizeLessThan = SizeCases[i].in] : i \in 1..Len(SizeCases)}
DurationFlags ==
    {[NoFlags EXCEPT !.dateWithin = DurationCases[i].in] : i \in 1..Len(DurationCases)}

CommandLines == PresenceFlags \cup BoundFlags \cup SizeFlags \cup DurationFlags


\* ---- filters: one export command translating its flags -----------------
otherVars == <<runVars, scanVars, tripVars>>

FilterInit ==
    /\ op = "export"
    /\ config \in {c \in ExportConfigs :
                      c.ParallelWorkers = 1 /\ c.Limit = 0 /\ c.Format = "eml" /\ ~c.Resume}
    /\ concurrency = config.ParallelWorkers
    /\ rot = 0
    /\ mailbox = <<>>
    /\ manifest = NoFile
    /\ Fresh
    /\ ScanIdle
    /\ flags \in CommandLines
    /\ filterConfig = ZeroConfig
    /\ parts = <<>>
    /\ query = ""
    /\ filterState = "flags"
    /\ TripIdle

\* runExport: buildFilterConfig(cmd)
BuildFilterConfig ==
    /\ filterState = "flags"
    /\ LET built == buildFilterConfig(flags)
       IN  IF built.ok
           THEN filterConfig' = built.config /\ filterState' = "config"
           ELSE filterConfig' = filterConfig /\ filterState' = "error"
    /\ UNCHANGED <<otherVars, flags, parts, query>>

\* Export: filterConfig.BuildGmailQuery(), for the log line
BuildGmailQuery ==
    /\ filterState = "config"
    /\ parts' = PartsOf(filterConfig)
    /\ query' = QueryOf(parts')
    /\ filterState' = "built"
    /\ UNCHANGED <<otherVars, flags, filterConfig>>

\* Export: filterConfig.Validate()
ValidateFilter ==
    /\ filterState = "built"
    /\ filterState' = IF Validate(filterConfig) THEN "valid" ELSE "invalid"
    /\ UNCHANGED <<otherVars, flags, filterConfig, parts, query>>

FilterNext ==
    \/ BuildFilterConfig
    \/ BuildGmailQuery
    \/ ValidateFilter

FilterSpec == FilterInit /\ [][FilterNext]_vars

\* ---- generate-filter: scanExportsDirectory -----------------------------
\* the paths an exports directory is drawn from, in the order WalkDir visits
\* them; s is a directory
ExportPaths ==
    <<<<"0", "1", "2", "3", "4", "5", "6", "7", "8", ".", "e", "m", "l">>,
      <<"0", "1", "2", "3", "4", "5", "6", "7", "8", "9", ".", "e", "m", "l">>,
      <<"0", "1", "2", "3", "4", "5", "6", "7", "8", "9", "a", "b", "c", "d", "e", "f", "0", "1", "2", "3", ".", "j", "s", "o", "n">>,
      <<"0", "1", "2", "3", "4", "5", "6", "7", "8", "9", "a", "b", "c", "d", "e", "f", "0", "1", "2", "3", "4", ".", "e", "m", "l">>,
      <<"1", "2", "5", "2", "8", "8", "c", "d", "4", "b", "d", "5", "2", "8", "1", "4", ".", "e", "m", "l">>,
      <<"1", "2", "5", "2", "8", "8", "c", "d", "4", "b", "d", "5", "2", "8", "1", "4", ".", "t", "x", "t">>,
      <<"1", "2", "5", "2", "8", "8", "c", "d", "4", "b", "d", "5", "2", "8", "1", "5", ".", "E", "M", "L">>,
      <<"1", "2", "5", "2", "8", "8", "c", "d", "4", "b", "d", "5", "2", "8", "1", "6", ".", "J", "s", "o", "n">>,
      <<"1", "2", "5", "2", "8", "8", "c", "d", "4", "b", "d", "5", "2", "8", "1", "8">>,
      <<"1", "2", "5", "2", "8", "8", "c", "d", "4", "b", "g", "5", "2", "8", "1", "4", ".", "e", "m", "l">>,
      <<"1", "2", "5", "2", "8", "9", "e", "5", "4", "0", "f", "0", "6", "a", "4", "e", ".", "j", "s", "o", "n">>,
      <<"1", "2", "D", "7", "A", "4", "1", "7", "9", "9", "4", "9", "1", "2", "5", "C", ".", "m", "b", "o", "x">>,
      <<"i", "n", "v", "a", "l", "i", "d", "-", "i", "d", ".", "e", "m", "l">>,
      <<"m", "e", "t", "r", "i", "c", "s", ".", "j", "s", "o", "n">>,
      <<"n", "o", "t", "-", "a", "n", "-", "e", "m", "a", "i", "l", ".", "t", "x", "t">>,
      <<"p", "r", "o", "c", "e", "s", "s", "e", "d", "_", "e", "m", "a", "i", "l", "s", ".", "j", "s", "o", "n">>,
      <<"s">>,
      <<"s", "/", "1", "2", "5", "2", "8", "8", "c", "d", "4", "b", "d", "5", "2", "8", "1", "7", ".", "e", "m", "l">>>>

\* the exports directories: at most MaxEntries paths, every path with its
\* parent directory, in walk order
ExportPathSets ==
    {S \in SUBSET (1..Len(ExportPaths)) :
        /\ Cardinality(S) <= MaxEntries
        /\ \A i \in S : \A d \in Parent(ExportPaths[i]) : \E j \in S : ExportPaths[j] = d}
RECURSIVE ExportListing(_, _)
ExportListing(S, i) ==
    IF i > Len(ExportPaths) THEN <<>>
    ELSE (IF i \in S THEN <<ExportPaths[i]>> ELSE <<>>) \o ExportListing(S, i + 1)
ExportTrees == {ExportListing(S, 1) : S \in ExportPathSets}

\* d.Name(): the last element of the path
RECURSIVE NameFrom(_, _)
NameFrom(path, i) ==
    IF i = 0 THEN path
    ELSE IF path[i] = "/" THEN SubSeq(path, i + 1, Len(path))
    ELSE NameFrom(path, i - 1)
Name(path) == NameFrom(path, Len(path))

\* strings.TrimSuffix
TrimSuffix(s, suffix) ==
    IF Len(s) >= Len(suffix) /\ SubSeq(s, Len(s) - Len(suffix) + 1, Len(s)) = suffix
    THEN SubSeq(s, 1, Len(s) - Len(suffix))
    ELSE s

HexDigits ==
    {"0", "1", "2", "3", "4", "5", "6", "7", "8", "9",
     "a", "b", "c", "d", "e", "f", "A", "B", "C", "D", "E", "F"}

\* cli.isValidGmailMessageID
isValidGmailMessageID(id) ==
    /\ ~(Len(id) < 10 \/ Len(id) > 20)
    /\ \A i \in 1..Len(id) : id[i] \in HexDigits

\* fileInfo.Size()
FileSize(path) == 100 * Len(path)

GenerateInit ==
    /\ op = "cleanup"
    /\ config \in {c \in CleanupConfigs :
                      c.Limit = 0 /\ c.Action = "archive" /\ c.DryRun}
    /\ concurrency = config.ParallelWorkers
    /\ rot = 0
    /\ mailbox = <<>>
    /\ manifest = NoFile
    /\ Fresh
    /\ tree \in ExportTrees
    /\ walked = 0 /\ emailFiles = <<>> /\ walkState = "walking"
    /\ FilterIdle
    /\ TripIdle

generateOther ==
    <<op, config, concurrency, rot, mailbox, pc, pageToken, messageIDs, preLimit, chanVars,
      spawned, sent, workerVars, closer, result, processed, progress, calls, listCalls,
      written, outputDir, manifestWrites, metricsSaved, ghostVars, panicked, retval, emailFiles, filterVars,
      tripVars>>

\* one call of the function scanExportsDirectory gives to filepath.WalkDir;
\* a directory that cannot be read is reported to it as an error, and a
\* file whose d.Info() fails is recorded without its size
ScanExportsFunc ==
    /\ walkState = "walking"
    /\ walked < Len(tree)
    /\ LET path == tree[walked + 1]
           ext == ToLower(Ext(path))
           filename == Name(path)
           emailID == TrimSuffix(filename, ext)
       IN  \E err \in (IF IsDir(path) THEN BOOLEAN ELSE {FALSE}) :
              IF err
              THEN walkState' = "error" /\ processedEmails' = <<>>
              ELSE /\ walkState' = walkState
                   /\ IF IsDir(path) \/ ~SupportedExt(ext) \/ ~isValidGmailMessageID(emailID)
                      THEN processedEmails' = processedEmails
                      ELSE \E size \in {0, FileSize(path)} :
                              processedEmails' =
                                 Append(processedEmails, [ID |-> emailID, Size |-> size])
    /\ walked' = walked + 1
    /\ UNCHANGED <<generateOther, tree, manifest>>

\* filepath.WalkDir returns nil: scanExportsDirectory returns processedEmails
ScanExportsDone ==
    /\ walkState = "walking"
    /\ walked = Len(tree)
    /\ walkState' = "done"
    /\ UNCHANGED <<generateOther, tree, walked, processedEmails, manifest>>

\* the generate-filter command after the scan: no record is an error,
\* otherwise the records are written to the filter file
WriteFilterFile ==
    /\ walkState = "done"
    /\ IF Len(processedEmails) = 0
       THEN walkState' = "empty" /\ manifest' = manifest
       ELSE \E ok \in BOOLEAN :
               IF ok THEN walkState' = "written" /\ manifest' = FileOf(processedEmails)
               ELSE walkState' = "error" /\ manifest' = manifest
    /\ UNCHANGED <<generateOther, tree, walked, processedEmails>>

GenerateNext ==
    \/ ScanExportsFunc
    \/ ScanExportsDone
    \/ WriteFilterFile

GenerateSpec == GenerateInit /\ [][GenerateNext]_vars

\* ---- export of one message, then import of the file it wrote ------------
\* bytes of a raw message
MaxBytes == 3

\* the byte values of the messages; 251 and 255 make the two characters
\* that differ between the standard and the URL alphabet
MessageBytes == {0, 77, 251, 255}
RawMessages == UNION {[1..n -> MessageBytes] : n \in 0..MaxBytes}

\* a base64 text is a sequence of character codes: 0..61 for A-Z a-z 0-9,
\* then + / = - _
Plus == 62
Slash == 63
Pad == 64
Minus == 65
Underscore == 66

\* base64.StdEncoding.EncodeToString
RECURSIVE StdEncode(_)
StdEncode(data) ==
    IF data = <<>> THEN <<>>
    ELSE IF Len(data) = 1
    THEN <<data[1] \div 4, (data[1] % 4) * 16, Pad, Pad>>
    ELSE IF Len(data) = 2
    THEN <<data[1] \div 4, (data[1] % 4) * 16 + data[2] \div 16, (data[2] % 16) * 4, Pad>>
    ELSE <<data[1] \div 4, (data[1] % 4) * 16 + data[2] \div 16,
           (data[2] % 16) * 4 + data[3] \div 64, data[3] % 64>>
         \o StdEncode(SubSeq(data, 4, Len(data)))

\* base64.URLEncoding.EncodeToString: - for + and _ for /
URLEncode(data) ==
    LET std == StdEncode(data)
    IN  [i \in 1..Len(std) |->
            CASE std[i] = Plus -> Minus [] std[i] = Slash -> Underscore [] OTHER -> std[i]]

\* strings.TrimRight(encoded, "=")
RECURSIVE TrimPad(_)
TrimPad(text) ==
    IF text # <<>> /\ text[Len(text)] = Pad THEN TrimPad(SubSeq(text, 1, Len(text) - 1))
    ELSE text

\* importer.encodeBase64URL
encodeBase64URL(data) == TrimPad(URLEncode(data))

\* base64.StdEncoding.DecodeString: groups of four characters of the
\* standard alphabet, padding only at the end of the last group
RECURSIVE StdDecode(_)
StdDecode(text) ==
    LET c == SubSeq(text, 1, 4)
        last == Len(text) = 4
        rest == StdDecode(SubSeq(text, 5, Len(text)))
        sextet(x) == x \in 0..63
    IN  IF text = <<>> THEN [ok |-> TRUE, data |-> <<>>]
        ELSE IF Len(text) < 4 \/ ~sextet(c[1]) \/ ~sextet(c[2])
        THEN [ok |-> FALSE, data |-> <<>>]
        ELSE IF c[3] = Pad /\ c[4] = Pad /\ last
        THEN [ok |-> TRUE, data |-> <<c[1] * 4 + c[2] \div 16>>]
        ELSE IF sextet(c[3]) /\ c[4] = Pad /\ last
        THEN [ok |-> TRUE,
              data |-> <<c[1] * 4 + c[2] \div 16, (c[2] % 16) * 16 + c[3] \div 4>>]
        ELSE IF sextet(c[3]) /\ sextet(c[4]) /\ rest.ok
        THEN [ok |-> TRUE,
              data |-> <<c[1] * 4 + c[2] \div 16, (c[2] % 16) * 16 + c[3] \div 4,
                         (c[3] % 4) * 64 + c[4]>> \o rest.data]
        ELSE [ok |-> FALSE, data |-> <<>>]

\* exporter.decodeBase64URL: pad to a multiple of four, replace - and _
decodeBase64URL(data) ==
    LET padded == CASE Len(data) % 4 = 2 -> data \o <<Pad, Pad>>
                    [] Len(data) % 4 = 3 -> data \o <<Pad>>
                    [] OTHER -> data
        std == [i \in 1..Len(padded) |->
                   CASE padded[i] = Minus -> Plus [] padded[i] = Underscore -> Slash
                     [] OTHER -> padded[i]]
    IN  StdDecode(std)

\* Users.Messages.Get(...).Format(format): the remote fills Raw for the raw
\* format only and the payload for the full format only
GetMessage(format) ==
    [Id |-> <<1>>,
     Raw |-> IF format = "raw"
             THEN (IF rawPadded THEN URLEncode(rawMessage) ELSE TrimPad(URLEncode(rawMessage)))
             ELSE <<>>,
     Payload |-> IF format = "full" THEN rawMessage ELSE <<>>]

\* json.MarshalIndent(message): the members of the object; raw is omitempty
MarshalIndent(message) ==
    {<<"id", message.Id>>}
    \cup (IF message.Payload # <<>> THEN {<<"payload", message.Payload>>} ELSE {})
    \cup (IF message.Raw # <<>> THEN {<<"raw", message.Raw>>} ELSE {})

\* json.Unmarshal into struct{ Raw string `json:"raw"` }
UnmarshalRaw(doc) ==
    IF \E member \in doc : member[1] = "raw"
    THEN (CHOOSE member \in doc : member[1] = "raw")[2]
    ELSE <<>>

\* a file of bytes / a file holding a JSON object
FileOfBytes(data) == [bytes |-> data, doc |-> {}]
FileOfJSON(doc) == [bytes |-> <<>>, doc |-> doc]

TripInit ==
    /\ op = "export"
    /\ config \in {c \in ExportConfigs :
                      /\ c.ParallelWorkers = 1 /\ c.Limit = 0 /\ ~c.Resume
                      /\ c.Format \in {"eml", "json", "mbox"}}
    /\ concurrency = config.ParallelWorkers
    /\ rot = 0
    /\ mailbox = <<>>
    /\ manifest = NoFile
    /\ Fresh
    /\ ScanIdle
    /\ FilterIdle
    /\ rawMessage \in RawMessages
    /\ rawPadded \in BOOLEAN
    /\ fileData = <<>>
    /\ importedRaw = <<>>
    /\ tripState = "start"

tripOther == <<runVars, scanVars, filterVars, rawMessage, rawPadded>>

\* exporter.exportSingleEmail: the full message is fetched, then written in
\* the format of the configuration; eml and mbox fetch the raw message
ExportSingleEmail ==
    /\ tripState = "start"
    /\ \E ok \in BOOLEAN :
          LET message == GetMessage("full")
              rawData == decodeBase64URL(GetMessage("raw").Raw)
          IN  IF ~ok \/ (config.Format # "json" /\ ~rawData.ok)
              THEN tripState' = "failed" /\ fileData' = fileData
              ELSE /\ tripState' = "exported"
                   /\ fileData' = IF config.Format = "json"
                                  THEN FileOfJSON(MarshalIndent(message))
                                  ELSE FileOfBytes(rawData.data)
    /\ UNCHANGED <<tripOther, importedRaw>>

\* importer.importSingleEmail of the file <id>.<format>: eml and mbox files
\* are encoded whole, a json file gives its raw member
ImportSingleEmail ==
    /\ tripState = "exported"
    /\ \E ok \in BOOLEAN :
          IF ok
          THEN /\ tripState' = "imported"
               /\ importedRaw' = IF config.Format = "json" THEN UnmarshalRaw(fileData.doc)
                                 ELSE encodeBase64URL(fileData.bytes)
          ELSE tripState' = "failed" /\ importedRaw' = importedRaw
    /\ UNCHANGED <<tripOther, fileData>>

TripNext ==
    \/ ExportSingleEmail
    \/ ImportSingleEmail

TripSpec == TripInit /\ [][TripNext]_vars

\* ---- the system ---------------------------------------------------------
Main ==
    \/ New
    \/ ExportValidateFilter
    \/ MakeOutputDir
    \/ SearchEmailsPage
    \/ ImportScan
    \/ CleanupLoad
    \/ ApplyLimit
    \/ EngineStart
    \/ StartWorker
    \/ SendJob
    \/ CloseJobs
    \/ GoCloser
    \/ Collect
    \/ CollectEnd
    \/ SaveManifest
    \/ Finish
    \/ CleanupOne
    \/ CleanupEnd

Worker ==
    \/ WorkerRecv
    \/ \E ls \in BagToSet(pool) : WorkerHandle(ls)
    \/ \E ls \in BagToSet(pool) : WorkerSend(ls)
    \/ WorkerExit

Next ==
    \/ Main
    \/ CloserRun
    \/ Worker

Spec == Init /\ [][Next]_vars

\* ---- properties ---------------------------------------------------------
Items == Range(messageIDs)
PoolOp == op \in {"export", "import"}
Returned == pc = "returned"
Succeeded == {id \in Items : outcome[id] = "ok"}
FailedItems == {id \in Items : outcome[id] \notin {"ok", "none"}}
FailuresFor(id) == {i \in 1..Len(result.Failures) : result.Failures[i].EmailID = id}
\* the number of workers of the pool whose local state is in S
RECURSIVE CopiesOf(_)
CopiesOf(S) ==
    IF S = {} THEN 0
    ELSE LET ls == CHOOSE x \in S : TRUE
         IN  CopiesIn(ls, pool) + CopiesOf(S \ {ls})
WorkersAt(at) == CopiesOf({ls \in BagToSet(pool) : ls.at = at})
WorkersOn(id) == CopiesOf({ls \in BagToSet(pool) : ls.job = id})
Running == WorkersAt("handle")
Started == BagCardinality(pool)
AllExited == \A ls \in BagToSet(pool) : ls = Exited

\* C1: in the export and import pools every item of the list is handed to the
\* handler whatever the other items' handlers returned, and when the run has
\* returned each failed item has exactly one Failure record, which carries
\* that item's identifier and the text of its error; no other item has one.
C1_EveryItemAttempted ==
    (Returned /\ PoolOp) =>
        /\ \A id \in Items : invoked[id] >= 1 /\ outcome[id] # "none"
        /\ \A id \in FailedItems :
              /\ Cardinality(FailuresFor(id)) = 1
              /\ \A i \in FailuresFor(id) :
                    result.Failures[i] = Failure(id, Handler(id, outcome[id]).Error)
        /\ \A id \in Succeeded : FailuresFor(id) = {}

\* a run of a pool in which the first item failed and the second succeeded
C1_Witness ==
    /\ Returned /\ PoolOp
    /\ Len(messageIDs) = 2
    /\ outcome[messageIDs[1]] \notin {"ok", "none"}
    /\ outcome[messageIDs[2]] = "ok"
    /\ result.TotalFailed = 1

\* C2: in the pools each item is received from the job queue at most once, its
\* handler is invoked at most once and at most one outcome for it is
\* collected, no two workers hold the same item, and when the run has returned
\* each of the three has happened exactly once for every item of the list.
C2_ExactlyOnce ==
    PoolOp =>
        /\ \A id \in ItemIDs :
              /\ taken[id] <= 1
              /\ invoked[id] <= taken[id]
              /\ collected[id] <= invoked[id]
        /\ \A id \in ItemIDs : WorkersOn(id) <= 1
        /\ Returned =>
              /\ \A id \in Items : taken[id] = 1 /\ invoked[id] = 1 /\ collected[id] = 1
              /\ processed = Len(messageIDs)

\* two workers have shared two items and the run has returned
C2_Witness ==
    /\ Returned /\ PoolOp
    /\ config.ParallelWorkers = 2
    /\ Len(messageIDs) = 2
    /\ CopiesIn(Exited, pool) = 2
    /\ \A id \in Items : collected[id] = 1

\* C3: succeeded + failed never exceeds the length of the item list during a
\* run; when the run has returned it equals that length, hence the number of
\* items found when the limit cut nothing, and it is at most TotalMatched.
C3_CountsBounded ==
    /\ result.TotalExported + result.TotalFailed <= Len(messageIDs)
    /\ Returned =>
          /\ result.TotalExported + result.TotalFailed = Len(messageIDs)
          /\ (Len(messageIDs) = preLimit)
                => result.TotalExported + result.TotalFailed = preLimit
          /\ result.TotalExported + result.TotalFailed <= result.TotalMatched

\* a returned run of two items without truncation, one failed and one succeeded
C3_Witness ==
    /\ Returned
    /\ preLimit = 2 /\ Len(messageIDs) = 2
    /\ result.TotalExported = 1 /\ result.TotalFailed = 1

\* the number of items a cleanup of n manifest entries processes under limit l
AfterLimit(n, l) == IF l > 0 /\ n > l THEN l ELSE n
Handled == {id \in Items : invoked[id] >= 1}
AllCalls == UNION {Range(calls[id]) : id \in ItemIDs}

\* C4: a cleanup in dry-run mode issues no remote call for any item, whatever
\* the manifest, the limit and the action; when it has returned, TotalProcessed
\* is the number of manifest items left by the limit and TotalFailed is 0.
C4_DryRunNoRemoteCall ==
    (op = "cleanup" /\ config.DryRun) =>
        /\ AllCalls = {}
        /\ result.TotalFailed = 0
        /\ Returned =>
              /\ result.TotalExported = AfterLimit(Len(mailbox), config.Limit)
              /\ result.TotalExported = Len(messageIDs)

\* a returned dry-run delete of a two-item manifest
C4_Witness ==
    /\ Returned /\ op = "cleanup" /\ config.DryRun
    /\ config.Action = "delete"
    /\ Len(mailbox) = 2
    /\ result.TotalExported = 2
    /\ invoked[1] = 1 /\ invoked[2] = 1

\* C5: a cleanup that is not a dry run issues, for every identifier it has
\* processed, exactly one remote call and none for the others: with action
\* archive a label modification removing INBOX, with action delete a delete.
C5_OneCallPerAction ==
    (op = "cleanup" /\ ~config.DryRun /\ pc \in {"cleanup", "finish", "returned"}) =>
        /\ \A id \in ItemIDs : invoked[id] <= 1
        /\ \A id \in ItemIDs : invoked[id] = 0 => calls[id] = <<>>
        /\ \A id \in Handled :
              calls[id] = IF config.Action = "archive"
                          THEN <<Call("messages.modify", "remove INBOX")>>
                          ELSE <<Call("messages.delete", "")>>
        /\ config.Action \in {"archive", "delete"}
        /\ Returned => Handled = Items

\* a returned archive of two items, one of which the remote rejected
C5_Witness ==
    /\ Returned /\ op = "cleanup" /\ ~config.DryRun
    /\ config.Action = "archive"
    /\ Len(messageIDs) = 2
    /\ result.TotalExported = 1 /\ result.TotalFailed = 1

\* C6: an import issues no remote call other than messages.import: one for
\* an item that was imported, at most one for an item that failed, none for
\* an item not yet handled, and never a send.
C6_ImportNeverSends ==
    op = "import" =>
        /\ \A c \in AllCalls : c.api = "messages.import"
        /\ listCalls = 0
        /\ \A id \in ItemIDs :
              /\ outcome[id] = "ok" => Len(calls[id]) = 1
              /\ Len(calls[id]) <= 1
              /\ outcome[id] = "none" => calls[id] = <<>>

\* a returned import where a .json file was imported and another file failed
\* after its import call
C6_Witness ==
    /\ Returned /\ op = "import"
    /\ \E i, j \in Items :
          /\ outcome[i] = "ok" /\ ExtOf(i, rot) = "json" /\ Len(calls[i]) = 1
          /\ outcome[j] = "rejected" /\ Len(calls[j]) = 1

\* C10: the pool never has more than max(1, ParallelWorkers) workers, it has
\* exactly that many once the start loop is over, and never more than that
\* many handler invocations are running.
PoolSize == Max(1, concurrency)

C10_FixedPool ==
    PoolOp =>
        /\ Started <= PoolSize
        /\ Running <= PoolSize
        /\ pc \in {"send", "go_closer", "collect", "save", "finish", "returned"}
              => Started = PoolSize

\* ParallelWorkers 0: one worker runs a handler; no second worker exists
C10_Witness ==
    /\ PoolOp
    /\ concurrency = 0
    /\ Running = 1
    /\ Started = 1
    /\ Len(jobs) >= 1

\* the Go scheduler runs every goroutine that can take a step, and every
\* handler invocation returns
FairSpec ==
    /\ Spec
    /\ WF_vars(Main)
    /\ WF_vars(CloserRun)
    /\ WF_vars(Worker)

\* the steps of the workers other than the return of the handler of SlowItem
PromptWorker ==
    \/ WorkerRecv
    \/ \E ls \in BagToSet(pool) : ls.job # SlowItem /\ WorkerHandle(ls)
    \/ \E ls \in BagToSet(pool) : WorkerSend(ls)
    \/ WorkerExit

\* the Go scheduler runs every goroutine that can take a step, and the
\* handler of every item but SlowItem returns; the handler of SlowItem
\* returns or runs forever
SlowSpec ==
    /\ Spec
    /\ WF_vars(Main)
    /\ WF_vars(CloserRun)
    /\ WF_vars(PromptWorker)

ManifestEntries == IF manifest.exists THEN manifest.entries ELSE <<>>
ManifestIDs == {ManifestEntries[i].ID : i \in 1..Len(ManifestEntries)}

\* C7: the manifest is written only after every item of the batch has been
\* collected, and when an export has returned the manifest of the output
\* directory lists exactly the items exported in that run, one record with
\* identifier and size per succeeded item and none for a failed one, the
\* sizes adding up to TotalSize.
C7_ManifestListsRun ==
    op = "export" =>
        /\ manifestWrites > 0 => processed = Len(messageIDs) /\ resultsClosed
        /\ Returned =>
              /\ ManifestIDs = Succeeded
              /\ Len(ManifestEntries) = Cardinality(Succeeded)
              /\ \A i \in 1..Len(ManifestEntries) :
                    ManifestEntries[i].Size = SizeOf(ManifestEntries[i].ID)
              /\ SumSizes(ManifestEntries) = result.TotalSize

\* C8: an export with Limit L > 0 whose search matched M > L identifiers
\* returns TotalMatched = M, has processed the first L identifiers of the
\* search and no other, and its manifest has at most L entries.
C8_LimitKeepsMatched ==
    (Returned /\ op = "export" /\ config.Limit > 0 /\ preLimit > config.Limit) =>
        /\ result.TotalMatched = preLimit
        /\ messageIDs = SubSeq(mailbox, 1, config.Limit)
        /\ {id \in ItemIDs : invoked[id] >= 1} = Items
        /\ result.TotalExported + result.TotalFailed = config.Limit

\* C9: the pool raises no panic by sending on a closed channel, the result
\* channel is closed only when every worker has exited, the collector leaves
\* its loop only when all outcomes are drained, and a pool that was started
\* returns, with every worker gone and all M outcomes aggregated.
C9_EngineTerminates ==
    /\ [](~panicked)
    /\ [](resultsClosed =>
            /\ Started = config.ParallelWorkers
            /\ AllExited)
    /\ []((PoolOp /\ pc \in {"save", "finish", "returned"}) =>
            /\ processed = Len(messageIDs)
            /\ results = <<>> /\ jobs = <<>>)
    /\ (pc = "engine") ~>
            (/\ Returned /\ retval = "result"
             /\ AllExited
             /\ result.TotalExported + result.TotalFailed = Len(messageIDs))

\* a pool of two workers has drained two items and returned
C9_Witness ==
    /\ Returned /\ PoolOp /\ resultsClosed
    /\ config.ParallelWorkers = 2
    /\ processed = 2
    /\ CopiesIn(Exited, pool) = 2

\* the result the handler of item id returned in this run
ResultOf(id) ==
    [MessageID |-> id, Size |-> Handler(id, outcome[id]).Size,
     Error |-> Handler(id, outcome[id]).Error]

\* the outcomes of the items of s aggregated in the order of s
RECURSIVE AggregateAll(_, _)
AggregateAll(res, s) ==
    IF s = <<>> THEN res
    ELSE AggregateAll(Aggregate(res, ResultOf(Head(s))), Tail(s))

Scalars(res) == <<res.TotalExported, res.TotalFailed, res.TotalSize>>

\* C11: when a pool has returned, the succeeded count, the failed count and
\* the byte total are those that aggregating the items' outcomes one by one in
\* submission order gives, whatever the interleaving and the number of
\* workers; the Failures and the manifest records are the same records, in
\* some order.
C11_CountsOrderIndependent ==
    (Returned /\ PoolOp) =>
        LET ref == AggregateAll(EmptyResult, messageIDs)
        IN  /\ Scalars(result) = Scalars(ref)
            /\ Len(result.Failures) = Len(ref.Failures)
            /\ Range(result.Failures) = Range(ref.Failures)
            /\ op = "export" =>
                  /\ Len(processedEmails) = Cardinality(Succeeded)
                  /\ Range(processedEmails) =
                        {ProcessedEmail(id, SizeOf(id)) : id \in Succeeded}

\* two workers: the second item's failure was collected before the first's
C11_Witness ==
    /\ Returned /\ PoolOp
    /\ config.ParallelWorkers = 2
    /\ Len(messageIDs) = 2
    /\ result.TotalFailed = 2
    /\ result.Failures[1].EmailID = messageIDs[2]
    /\ result.Failures[2].EmailID = messageIDs[1]

\* C12: in the pools every step that changes the accumulator (the result, the
\* progress counter, the list of processed records) is a step of the main
\* goroutine, creating it, collecting one outcome or returning it; no step of
\* a worker or of the closing goroutine changes it, so its writes are ordered.
C12_SingleWriter ==
    [][(PoolOp /\ aggVars' # aggVars) =>
          /\ pc \in {"engine", "collect", "finish"}
          /\ pool' = pool
          /\ closer' = closer
          /\ wgCount' = wgCount
          /\ jobs' = jobs]_vars

\* the collector has aggregated one outcome while a worker runs a handler
C12_Witness ==
    /\ PoolOp /\ pc = "collect"
    /\ processed = 1
    /\ result.TotalExported + result.TotalFailed = 1
    /\ Running = 1

RemoteFailures == {"getfail", "rawfail", "rejected", "apifail"}
RemoteFailed == {id \in Items : outcome[id] \in RemoteFailures}
RemoteCallMade == listCalls > 0 \/ AllCalls # {}

\* C14: once an operation has made a remote call it never returns an error,
\* whichever call fails, the search page fetch included; when it has returned
\* its result, every item whose remote call failed has its Failure record.
C14_RemoteFailureNeverAborts ==
    /\ RemoteCallMade => retval # "error"
    /\ Returned =>
          /\ retval = "result"
          /\ \A id \in RemoteFailed : Cardinality(FailuresFor(id)) = 1

\* C14 as amended: the failure of a per-item call (message fetch, import,
\* label modification, delete) never makes the operation return an error and
\* is one Failure record of the returned result; the failure of a search
\* page fetch makes the export return an error and no result, before any
\* item is handled.
C14_ItemCallFailuresAreData ==
    /\ AllCalls # {} => retval # "error"
    /\ Returned =>
          /\ retval = "result"
          /\ \A id \in RemoteFailed :
                /\ Cardinality(FailuresFor(id)) = 1
                /\ \A i \in FailuresFor(id) : result.Failures[i].Error # Nil
          /\ result.TotalFailed >= Cardinality(RemoteFailed)
    /\ (retval = "error" /\ listCalls > 0) =>
          /\ op = "export" /\ pc = "failed"
          /\ result = EmptyResult
          /\ AllCalls = {} /\ written = {} /\ pool = EmptyBag

\* an export whose two pages were fetched, one message fetch failed and the
\* other message was exported
C14_Witness ==
    /\ Returned /\ op = "export" /\ retval = "result"
    /\ listCalls = 2
    /\ Cardinality(RemoteFailed) = 1
    /\ result.TotalFailed = 1 /\ result.TotalExported = 1

\* the number of pages the listing of the mailbox has
NumPages == IF Len(mailbox) = 0 THEN 1 ELSE (Len(mailbox) + PageSize - 1) \div PageSize

\* the identifiers of the first n pages, in page order
RECURSIVE FirstPages(_)
FirstPages(n) == IF n = 0 THEN <<>> ELSE FirstPages(n - 1) \o PageOf(n - 1)

BeforeEngine == pc \in {"new", "entry", "mkdir", "search", "limit", "rejected", "failed"}

\* C15: the search of an export asks for one page after the other until a
\* page has no continuation token; while it does, and until the list goes to
\* the engine, no message is fetched and no file written; the list handed to
\* the engine is all pages in page order, cut to the limit.
C15_SearchBeforeProcessing ==
    op = "export" =>
        /\ BeforeEngine =>
              /\ AllCalls = {} /\ written = {}
              /\ \A id \in ItemIDs : invoked[id] = 0
        /\ pc = "search" => messageIDs = FirstPages(pageToken)
        /\ pc = "limit" =>
              /\ messageIDs = FirstPages(NumPages)
              /\ ~HasNextPage(pageToken)
        /\ ~BeforeEngine =>
              /\ listCalls = NumPages
              /\ messageIDs = Truncate(FirstPages(NumPages), config.Limit)
              /\ preLimit = Len(mailbox)

\* two pages were fetched and the first message is being fetched
C15_Witness ==
    /\ op = "export" /\ pc = "collect"
    /\ listCalls = 2 /\ NumPages = 2
    /\ messageIDs = mailbox /\ Len(messageIDs) = 2
    /\ calls[1] # <<>>

RECURSIVE SizeOfAll(_)
SizeOfAll(S) ==
    IF S = {} THEN 0
    ELSE LET id == CHOOSE x \in S : TRUE
         IN  SizeOf(id) + SizeOfAll(S \ {id})

\* C17: when an operation has returned, the succeeded count is the number of
\* items whose handler returned no error, TotalFailed is the number of items
\* whose handler returned an error and the length of Failures, and the byte
\* total is the sum of the sizes of the succeeded items only; so no failure
\* gives an empty Failures and TotalFailed 0, and no success gives
\* TotalFailed = len(items) and a succeeded count of 0.
C17_CountsMatchOutcomes ==
    Returned =>
        /\ result.TotalExported = Cardinality(Succeeded)
        /\ result.TotalFailed = Cardinality(FailedItems)
        /\ result.TotalFailed = Len(result.Failures)
        /\ result.TotalSize = IF PoolOp THEN SizeOfAll(Succeeded) ELSE 0
        /\ FailedItems = {} => (result.Failures = <<>> /\ result.TotalFailed = 0)
        /\ Succeeded = {} =>
              (result.TotalFailed = Len(messageIDs) /\ result.TotalExported = 0
               /\ result.TotalSize = 0)

\* a returned import of two files whose handlers both failed
C17_Witness ==
    /\ Returned /\ op = "import"
    /\ Len(messageIDs) = 2
    /\ Succeeded = {}
    /\ result.TotalFailed = 2 /\ Len(result.Failures) = 2

InEngine ==
    pc \in {"engine", "spawn", "send", "go_closer", "collect", "save", "finish",
            "cleanup", "returned"}

\* C18: with an empty item list, the engine of every operation reports no
\* error and returns a result whose counts and byte total are zero and whose
\* Failures are empty; no handler is invoked, no progress line is computed,
\* and the manifest is not written.  A progress percentage is never computed
\* with a zero total.
C18_EmptyListAllZero ==
    /\ progress.defined
    /\ (InEngine /\ messageIDs = <<>>) =>
          /\ retval # "error" /\ ~panicked
          /\ Scalars(result) = <<0, 0, 0>>
          /\ result.Failures = <<>> /\ result.TotalMatched = 0
          /\ processed = 0 /\ progress = NoProgress
          /\ AllCalls = {} /\ written = {}
          /\ \A id \in ItemIDs : invoked[id] = 0 /\ taken[id] = 0
          /\ manifestWrites = 0 /\ processedEmails = <<>>
          /\ Returned => retval = "result"

\* an export whose search matched nothing has started its two workers, seen
\* them exit and returned
C18_Witness ==
    /\ Returned /\ op = "export" /\ retval = "result"
    /\ mailbox = <<>> /\ messageIDs = <<>>
    /\ CopiesIn(Exited, pool) = 2
    /\ resultsClosed

\* the messages whose files an earlier, interrupted run of the export being
\* resumed left in the output directory: the first message of the mailbox
ExportedBefore ==
    IF op = "export" /\ config.Resume /\ Len(mailbox) >= 1 THEN {mailbox[1]} ELSE {}

\* C19: an export run with resume enabled does not fetch or write again the
\* messages an interrupted earlier run exported, and when it has returned it
\* has handled every other message of its list.
C19_ResumeSkipsExported ==
    (op = "export" /\ config.Resume) =>
        /\ \A id \in ExportedBefore :
              invoked[id] = 0 /\ calls[id] = <<>> /\ id \notin written
        /\ Returned => \A id \in Items \ ExportedBefore : invoked[id] = 1

\* the paths of AllPaths that are files with the extension .eml, .json or
\* .mbox in any letter case
EmailPaths ==
    {<<"B", ".", "E", "M", "L">>,
     <<"a", ".", "e", "m", "l">>,
     <<"c", ".", "J", "s", "o", "n">>,
     <<"d", ".", "m", "b", "o", "x">>,
     <<"s", "/", "e", ".", "e", "m", "l">>}

\* C20: when the scan of the input directory has returned, its list holds
\* exactly the files under the directory, at any depth, whose extension is
\* .eml, .json or .mbox in any letter case, each once and in walk order; no
\* directory and no other file is in the list, so none is counted as found.
C20_ScanFindsEmailFiles ==
    walkState = "done" =>
        /\ Range(emailFiles) = Range(tree) \cap EmailPaths
        /\ Len(emailFiles) = Cardinality(Range(tree) \cap EmailPaths)
        /\ \A i, j \in 1..Len(emailFiles) :
              i < j => \E k, l \in 1..Len(tree) :
                          k < l /\ tree[k] = emailFiles[i] /\ tree[l] = emailFiles[j]

\* a directory of B.EML, a.eml and n.txt was scanned: two files found
C20_Witness ==
    /\ walkState = "done"
    /\ tree = <<<<"B", ".", "E", "M", "L">>, <<"a", ".", "e", "m", "l">>, <<"n", ".", "t", "x", "t">>>>
    /\ emailFiles = <<<<"B", ".", "E", "M", "L">>, <<"a", ".", "e", "m", "l">>>>

\* the command line has been translated into a query
QueryBuilt == filterState \in {"built", "valid", "invalid"}

\* the clauses of the flags of GivenFlags, in the order of the contract:
\* to, from, subject, included words, excluded words, size, -size,
\* newer_than, after, before, attachment, -in:chats, labels, in:<scope>
ClaimedClauses(f) ==
    <<[present |-> f.to # "", text |-> "to:a@x.io"],
      [present |-> f.from # "", text |-> "from:b@y.io"],
      [present |-> f.subject # "", text |-> "subject:(status report)"],
      [present |-> f.includesWords # "", text |-> "budget 2024"],
      [present |-> f.excludesWords # <<>>, text |-> "-spam -junk"],
      [present |-> f.sizeGreaterThan # <<>>, text |-> "size:1024"],
      [present |-> f.sizeLessThan # <<>>, text |-> "-size:5242880"],
      [present |-> f.dateWithin # <<>>, text |-> "newer_than:30d"],
      [present |-> f.dateAfter # NoDate, text |-> "after:2024/01/05"],
      [present |-> f.dateBefore # NoDate, text |-> "before:2024/12/31"],
      [present |-> f.hasAttachment \/ f.noAttachment,
       text |-> IF f.noAttachment THEN "-has:attachment" ELSE "has:attachment"],
      [present |-> f.excludeChats, text |-> "-in:chats"],
      [present |-> f.labels # <<>>, text |-> "label:work label:home"],
      [present |-> f.searchScope # "", text |-> "in:inbox"]>>
ClaimedQuery(f) ==
    LET present == SelectSeq(ClaimedClauses(f), LAMBDA clause : clause.present)
    IN  Join([i \in 1..Len(present) |-> present[i].text])

\* the position of a clause in the order of the contract
ClaimedOrder ==
    <<"to", "from", "subject", "includes", "excludes", "size", "-size", "newer_than",
      "after", "before", "attachment", "-in:chats", "labels", "in">>
Rank(key) == CHOOSE i \in 1..Len(ClaimedOrder) : ClaimedOrder[i] = key

\* C21: the query built from a filter holds the clauses of the fields that
\* are present, in the fixed order to, from, subject, included words,
\* excluded words, size, -size, newer_than, after, before, attachment,
\* -in:chats, labels, in:<scope>, joined by single spaces, and building the
\* query leaves the filter unchanged.
C21_QueryInFixedOrder ==
    /\ [](QueryBuilt =>
            /\ \A i, j \in 1..Len(parts) : i < j => Rank(parts[i].key) <= Rank(parts[j].key)
            /\ flags \in PresenceFlags => query = ClaimedQuery(flags))
    /\ [][filterState' = "built" => filterConfig' = filterConfig]_vars

\* every flag was given: fourteen clauses, two of them of two parts
C21_Witness ==
    /\ filterState = "built"
    /\ flags = GivenFlags
    /\ Len(parts) = 16
    /\ query = "to:a@x.io from:b@y.io subject:(status report) budget 2024 -spam -junk size:1024 -size:5242880 newer_than:30d after:2024/01/05 before:2024/12/31 -has:attachment -in:chats label:work label:home in:inbox"

\* the value of a byte count that fits an integer of the model
RECURSIVE Bytes(_)
Bytes(l) == IF l = <<>> THEN 0 ELSE Head(l) + 1024 * Bytes(Tail(l))

\* a <= b for dates
NotAfter(a, b) == <<a.Y, a.M, a.D>> = <<b.Y, b.M, b.D>> \/ After(b, a)

\* C22: a filter that Validate accepts satisfies the invariant of a filter:
\* with both sizes set the minimum is less than the maximum, with both dates
\* set the after-date is strictly before the before-date, and a search scope
\* that is set is a recognized one.
C22_AcceptedSatisfiesInvariant ==
    filterState = "valid" =>
        /\ (Bytes(filterConfig.SizeGreaterThan) > 0 /\ Bytes(filterConfig.SizeLessThan) > 0
              => Bytes(filterConfig.SizeGreaterThan) < Bytes(filterConfig.SizeLessThan))
        /\ (filterConfig.DateAfter # NoDate /\ filterConfig.DateBefore # NoDate
              => /\ NotAfter(filterConfig.DateAfter, filterConfig.DateBefore)
                 /\ filterConfig.DateAfter # filterConfig.DateBefore)
        /\ (filterConfig.SearchScope # ""
              => filterConfig.SearchScope \in {"all_mail", "inbox", "sent", "drafts", "spam", "trash"})

\* the clauses of the relative date window in the parts of the query
WindowClauses == SelectSeq(parts, LAMBDA part : part.key = "newer_than")

SizeFlag ==
    IF flags.sizeGreaterThan # <<>> THEN flags.sizeGreaterThan ELSE flags.sizeLessThan
SizeParsed ==
    IF flags.sizeGreaterThan # <<>> THEN filterConfig.SizeGreaterThan
    ELSE filterConfig.SizeLessThan

\* C24: ParseSize gives a numeric prefix followed by no unit, B, KB, MB, GB
\* or TB in any letter case the prefix times 1024^k bytes (k = 0, 0, 1, 2,
\* 3, 4), so 5MB gives 5242880 and 1024 gives 1024, and fails when the
\* prefix is missing or unparseable or the unit is not one of those.
C24_ParseSize ==
    \A i \in 1..Len(SizeCases) :
        (flags \in SizeFlags /\ SizeFlag = SizeCases[i].in /\ filterState # "flags")
        => IF SizeCases[i].bytes = "" THEN filterState = "error"
           ELSE /\ filterState # "error"
                /\ FormatInt64(SizeParsed) = SizeCases[i].bytes

\* 5mb was parsed: 5242880 bytes, in the query as the minimum size
C24_Witness ==
    /\ filterState = "built"
    /\ flags.sizeGreaterThan = <<"5", "m", "b">>
    /\ filterConfig.SizeGreaterThan = <<0, 0, 5>>
    /\ query = "size:5242880"

\* C25: ParseDuration gives an integer magnitude n followed by one unit
\* letter n hours for h, n days for d, 7n days for w, 30n days for m and
\* 365n days for y, and fails on an unrecognized unit, on a magnitude that
\* is not an integer and on input shorter than two characters.
C25_ParseDuration ==
    \A i \in 1..Len(DurationCases) :
        (flags \in DurationFlags /\ flags.dateWithin = DurationCases[i].in
         /\ filterState # "flags")
        => IF DurationCases[i].ok
           THEN filterState # "error" /\ filterConfig.DateWithin = DurationCases[i].hours
           ELSE filterState = "error"

\* 6m was parsed: 180 days
C25_Witness ==
    /\ filterState = "config"
    /\ flags.dateWithin = <<"6", "m">>
    /\ filterConfig.DateWithin = 180 * 24

\* the files of ExportPaths whose extension is .eml, .json or .mbox in any
\* letter case and whose base name is 10 to 20 hexadecimal digits, each
\* with that base name
ClaimedRecords ==
    <<[path |-> <<"0", "1", "2", "3", "4", "5", "6", "7", "8", "9", ".", "e", "m", "l">>,
       id |-> <<"0", "1", "2", "3", "4", "5", "6", "7", "8", "9">>],
      [path |-> <<"0", "1", "2", "3", "4", "5", "6", "7", "8", "9", "a", "b", "c", "d", "e", "f", "0", "1", "2", "3", ".", "j", "s", "o", "n">>,
       id |-> <<"0", "1", "2", "3", "4", "5", "6", "7", "8", "9", "a", "b", "c", "d", "e", "f", "0", "1", "2", "3">>],
      [path |-> <<"1", "2", "5", "2", "8", "8", "c", "d", "4", "b", "d", "5", "2", "8", "1", "4", ".", "e", "m", "l">>,
       id |-> <<"1", "2", "5", "2", "8", "8", "c", "d", "4", "b", "d", "5", "2", "8", "1", "4">>],
      [path |-> <<"1", "2", "5", "2", "8", "8", "c", "d", "4", "b", "d", "5", "2", "8", "1", "5", ".", "E", "M", "L">>,
       id |-> <<"1", "2", "5", "2", "8", "8", "c", "d", "4", "b", "d", "5", "2", "8", "1", "5">>],
      [path |-> <<"1", "2", "5", "2", "8", "8", "c", "d", "4", "b", "d", "5", "2", "8", "1", "6", ".", "J", "s", "o", "n">>,
       id |-> <<"1", "2", "5", "2", "8", "8", "c", "d", "4", "b", "d", "5", "2", "8", "1", "6">>],
      [path |-> <<"1", "2", "5", "2", "8", "9", "e", "5", "4", "0", "f", "0", "6", "a", "4", "e", ".", "j", "s", "o", "n">>,
       id |-> <<"1", "2", "5", "2", "8", "9", "e", "5", "4", "0", "f", "0", "6", "a", "4", "e">>],
      [path |-> <<"1", "2", "D", "7", "A", "4", "1", "7", "9", "9", "4", "9", "1", "2", "5", "C", ".", "m", "b", "o", "x">>,
       id |-> <<"1", "2", "D", "7", "A", "4", "1", "7", "9", "9", "4", "9", "1", "2", "5", "C">>],
      [path |-> <<"s", "/", "1", "2", "5", "2", "8", "8", "c", "d", "4", "b", "d", "5", "2", "8", "1", "7", ".", "e", "m", "l">>,
       id |-> <<"1", "2", "5", "2", "8", "8", "c", "d", "4", "b", "d", "5", "2", "8", "1", "7">>]>>
ClaimedIDs(path) ==
    LET hits == SelectSeq(ClaimedRecords, LAMBDA rec : rec.path = path)
    IN  [i \in 1..Len(hits) |-> hits[i].id]
RECURSIVE ClaimedScan(_)
ClaimedScan(paths) ==
    IF paths = <<>> THEN <<>> ELSE ClaimedIDs(Head(paths)) \o ClaimedScan(Tail(paths))

\* C26: when the generate-filter scan has returned, it has emitted one
\* record for each file whose extension is .eml, .json or .mbox in any
\* letter case and whose base name is 10 to 20 hexadecimal digits, and none
\* for any other file; the record carries that base name as identifier.
C26_ScanEmitsRecords ==
    walkState = "done" =>
        [i \in 1..Len(processedEmails) |-> processedEmails[i].ID] = ClaimedScan(tree)

\* C27: in a pool of two or more workers every item other than the slow one
\* is eventually taken, handled and collected, however long the handler of
\* the slow item runs, even forever; and the pool returns only when the
\* handler of the slow item has returned.
C27_SlowItemDelaysOnlyItself ==
    /\ (pc = "engine" /\ PoolOp /\ config.ParallelWorkers >= 2)
          ~> (\A id \in Items \ {SlowItem} :
                 taken[id] = 1 /\ invoked[id] = 1 /\ collected[id] = 1)
    /\ []((Returned /\ PoolOp /\ SlowItem \in Items) => invoked[SlowItem] = 1)

\* the handler of the slow item is still running and the other item has
\* been handled by the second worker and collected
C27_Witness ==
    /\ PoolOp /\ config.ParallelWorkers = 2
    /\ BagIn(Handling(SlowItem), pool)
    /\ invoked[SlowItem] = 0
    /\ \E id \in Items \ {SlowItem} : invoked[id] = 1 /\ collected[id] = 1

\* C28: for every export format, the payload that the import of an exported
\* file submits to the remote import operation decodes to the bytes of the
\* message that was exported.
C28_ExportImportRoundTrip ==
    tripState = "imported" =>
        /\ decodeBase64URL(importedRaw).ok
        /\ decodeBase64URL(importedRaw).data = rawMessage

\* the files an export leaves in its output directory: <id>.<format> for
\* every message it wrote, the manifest and the metrics file
FormatChars(format) ==
    CASE format = "eml" -> <<"e", "m", "l">>
      [] format = "json" -> <<"j", "s", "o", "n">>
      [] OTHER -> <<"m", "b", "o", "x">>
MessageFiles == {<<ToString(id), ".">> \o FormatChars(config.Format) : id \in written}
ManifestPath ==
    <<"p", "r", "o", "c", "e", "s", "s", "e", "d", "_", "e", "m", "a", "i", "l", "s",
      ".", "j", "s", "o", "n">>
MetricsPath == <<"m", "e", "t", "r", "i", "c", "s", ".", "j", "s", "o", "n">>
OutputFiles ==
    MessageFiles
    \cup (IF manifest.exists THEN {ManifestPath} ELSE {})
    \cup (IF metricsSaved THEN {MetricsPath} ELSE {})

\* the files the scan of an import run on that directory finds
ImportFound == {path \in OutputFiles : SupportedExt(ToLower(Ext(path)))}

\* C29: an import run on the output directory of a completed export finds
\* exactly the message files that export wrote, as many as TotalExported;
\* the manifest and the metrics file of the export are not among them.
C29_ImportFindsMessageFilesOnly ==
    (Returned /\ op = "export") =>
        /\ ImportFound = MessageFiles
        /\ Cardinality(ImportFound) = result.TotalExported
        /\ ManifestPath \notin ImportFound
        /\ MetricsPath \notin ImportFound

\* C30: when an export has returned, the manifest of its output directory
\* reflects that run only: a run with a success has overwritten it with the
\* identifiers that succeeded, and after a run without a success it holds no
\* entry of an earlier run, so a cleanup that loads it handles only messages
\* that this run exported.
C30_ManifestOfLatestRun ==
    (Returned /\ op = "export") =>
        /\ Succeeded # {} => ManifestIDs = Succeeded
        /\ Succeeded = {} => StaleID \notin ManifestIDs
        /\ Range(loadProcessedEmails(manifest)) \subseteq Succeeded

====
